---- MODULE Spec2Model ----
(***************************************************************************)
(* A model of the e-commerce chat backend: the token service (generate,    *)
(* verify, logout and the Redis blacklist), the login rate limiter, the    *)
(* ChatController gateway (handshake, message pipeline, disconnect) and    *)
(* the socket handler of server.ts.  All of them share one Redis server    *)
(* (REDIS_URL) and one relational store.                                   *)
(*                                                                         *)
(* Each subsystem has its own next-state relation and specification; the   *)
(* variables of the other subsystems stay at their initial values.         *)
(***************************************************************************)
EXTENDS Integers, Sequences, FiniteSets, TLC

VARIABLES
  \* ---- token service (AuthService.generateToken / verifyToken / logout)
  tnow,          \* wall clock, in sub-second ticks (Date.now())
  tokIat,        \* token -> second it was issued at (iat), NoTime if not issued
  blacklist,     \* token -> tick at which the Redis key blacklist:<token> expires, NoTime if absent
  revoked,       \* token -> TRUE once a logout(token) call has completed
  verifyResult,  \* token -> outcome of the last verifyToken(token) call
  authRedisUp    \* whether the auth module's Redis client reaches the server

VARIABLES
  \* ---- login (AuthService.login and its RateLimiterRedis)
  rl,              \* email -> the limiter's Redis key auth:login:<email>: points, minutes to live
  users,           \* email -> the users row with that email
  lp,              \* login call -> its position in AuthService.login and what it holds
  loginCalls,      \* login calls started so far
  windowCalls,     \* email -> consume calls counted by the current limiter key
  passedInWindow,  \* email -> login calls the current limiter key has let through
  everBlocked      \* email -> TRUE once a login for it was rejected by the limiter

VARIABLES
  \* ---- ChatController (handleConnection, handleMessage, handleDisconnect)
  conn,         \* connection -> transport state, handshake position, socket.data
  sessions,     \* the sessions table, in insertion order (the id is the position)
  messages,     \* the messages table: the rows inserted so far
  pipe,         \* message -> its handleMessage invocation: position and what it holds
  memo,         \* content -> the Redis key holding the memoized reply, with its time to live
  emitted,      \* what was emitted to sockets: 'message' and 'error' events
  published,    \* system events published on the channel chat-events
  flagCalls,    \* messages for which featureFlags.checkFlag was called
  aiCalls,      \* messages for which the AI service was called
  cacheWrites   \* messages whose pipeline wrote a memoization entry

VARIABLES
  \* ---- server.ts (socket.on('message', ...))
  srvMsg,       \* message -> its handler invocation: position, what it did, its callback
  srvCache      \* message text -> the Redis key redisClient.setEx wrote, with its time to live

VARIABLES
  \* ---- FeatureFlagService.isEnabled on one flag
  feStored,     \* the Redis hash feature:<name>: its fields enabled and strategies
  feMirrored,   \* whether this.flags holds the flag parsed from that hash
  feCall,       \* the last isEnabled call: its context and what came of it
  feSeen        \* the rollout checks made so far: user id, percentage, result

VARIABLES
  \* ---- FeatureFlagService: one flag, its Redis hash and the mirrors of two instances
  fsStore,      \* the hash feature:<name> in Redis: "absent", "on" or "off" (its enabled field)
  fsMirror,     \* instance -> what this.flags holds for the flag
  fsOp,         \* instance -> operation -> where it is and what it has read
  fsQueue,      \* instance -> the operations waiting for a reply of Redis, oldest first
  fsWritten,    \* what the last updateFlag / deleteFlag that returned has written
  fsFresh       \* instance -> a timer refresh begun after the last write has completed

VARIABLES
  \* ---- CacheService: get, set and delete on the Redis keys
  csStore,      \* key -> the string Redis holds and the time it expires at
  csNow,        \* the clock, seconds
  csCall,       \* the call that has just returned: what went wrong, what it returned
  csSet         \* key -> the last set that returned true and is not overwritten since

VARIABLES
  \* ---- AuthService called with any token string: verifyToken, logout, the
  \* ---- authenticate and requireRole middleware
  auNow,        \* the clock, seconds
  auIssued,     \* the tokens generateToken has returned
  auBlacklist,  \* token string -> the time its blacklist key expires at, NoTime if none
  auCall        \* the call that has just returned: what it was given and what it did

VARIABLES
  \* ---- ChatController: the chat-events channel between the instances
  psPc,         \* instance -> how far setupRedisPubSub has come
  psQueue,      \* instance -> the events its publisher holds until it is connected
  psInbox,      \* instance -> the events Redis has delivered to its subscriber
  psEmitted,    \* instance -> the events it has emitted to its own clients
  psPublished   \* the events that reached the channel, each with the instances running then

VARIABLES
  \* ---- FeatureFlagService: one flag through updateFlag, its Redis hash and loadFlags
  rtPc,         \* how far the updateFlag call has come
  rtWritten,    \* the definition updateFlag was called with
  rtStored,     \* the Redis hash feature:<name> that hSet wrote
  rtMirror      \* what this.flags holds for the flag after loadFlags

VARIABLES
  \* ---- FeatureFlagService.checkPercentageRollout on one user id
  roUserId,     \* the user id, as the code units charCodeAt reads
  roSeen        \* the checks made for it so far: percentage, hash % 100, result

tokenVars == <<tnow, tokIat, blacklist, revoked, verifyResult, authRedisUp>>
loginVars == <<rl, users, lp, loginCalls, windowCalls, passedInWindow, everBlocked>>

chatVars == <<conn, sessions, messages, pipe, memo, emitted, published,
              flagCalls, aiCalls, cacheWrites>>

srvVars == <<srvMsg, srvCache>>
evalVars == <<feStored, feMirrored, feCall, feSeen>>
syncVars == <<fsStore, fsMirror, fsOp, fsQueue, fsWritten, fsFresh>>
cacheVars == <<csStore, csNow, csCall, csSet>>
authVars == <<auNow, auIssued, auBlacklist, auCall>>
pubsubVars == <<psPc, psQueue, psInbox, psEmitted, psPublished>>
roundVars == <<rtPc, rtWritten, rtStored, rtMirror>>
rolloutVars == <<roUserId, roSeen>>

vars == <<tokenVars, loginVars, chatVars, srvVars, evalVars, syncVars, cacheVars,
  authVars, pubsubVars, roundVars, rolloutVars>>

\* what the steps of one subsystem leave alone
notTokenVars == <<loginVars, chatVars, srvVars, evalVars, syncVars, cacheVars,
  authVars, pubsubVars, roundVars, rolloutVars>>
notLoginVars == <<tokenVars, chatVars, srvVars, evalVars, syncVars, cacheVars,
  authVars, pubsubVars, roundVars, rolloutVars>>
notChatVars == <<tokenVars, loginVars, srvVars, evalVars, syncVars, cacheVars,
  authVars, pubsubVars, roundVars, rolloutVars>>
notSrvVars == <<tokenVars, loginVars, chatVars, evalVars, syncVars, cacheVars,
  authVars, pubsubVars, roundVars, rolloutVars>>
notEvalVars == <<tokenVars, loginVars, chatVars, srvVars, syncVars, cacheVars,
  authVars, pubsubVars, roundVars, rolloutVars>>
notSyncVars == <<tokenVars, loginVars, chatVars, srvVars, evalVars, cacheVars,
  authVars, pubsubVars, roundVars, rolloutVars>>
notCacheVars == <<tokenVars, loginVars, chatVars, srvVars, evalVars, syncVars,
  authVars, pubsubVars, roundVars, rolloutVars>>
notAuthVars == <<tokenVars, loginVars, chatVars, srvVars, evalVars, syncVars,
  cacheVars, pubsubVars, roundVars, rolloutVars>>
notPubsubVars == <<tokenVars, loginVars, chatVars, srvVars, evalVars, syncVars,
  cacheVars, authVars, roundVars, rolloutVars>>
notRoundVars == <<tokenVars, loginVars, chatVars, srvVars, evalVars, syncVars,
  cacheVars, authVars, pubsubVars, rolloutVars>>
notRolloutVars == <<tokenVars, loginVars, chatVars, srvVars, evalVars, syncVars,
  cacheVars, authVars, pubsubVars, roundVars>>

NoTime == 0 - 1

(***************************************************************************)
(* Token service                                                           *)
(***************************************************************************)

\* Bounds of the token model.
NumTokens == 2          \* tokens in play
SubTicks == 2           \* clock ticks per second (Date.now() is finer than a second)
TokenLifetime == 2      \* TOKEN_EXPIRY in seconds (process.env.TOKEN_EXPIRY, default '1h')
MaxTime == 8            \* clock ticks explored

Tokens == 1..NumTokens

\* Math.floor(Date.now() / 1000)
NowSec == tnow \div SubTicks

\* exp claim jwt.sign writes: iat + expiresIn
TokenExp(t) == tokIat[t] + TokenLifetime

\* jwt.verify(token, JWT_SECRET, {algorithms}): the token was signed by generateToken
\* and the clock has not reached exp
JwtVerifyOk(t) == tokIat[t] # NoTime /\ NowSec < TokenExp(t)

\* a Redis key with an expiry is there until its expiry time is reached
RedisKeyLive(expireAt) == expireAt # NoTime /\ tnow < expireAt

\* redisClient.get(`blacklist:${token}`) is truthy
IsBlacklisted(t) == RedisKeyLive(blacklist[t])

\* AuthService.verifyToken: the outcome of a call made in the current state
VerifyTokenOutcome(t) ==
  IF ~JwtVerifyOk(t) THEN "invalid"            \* jwt.verify throws
  ELSE IF ~authRedisUp THEN "invalid"          \* redisClient.get rejects, caught
  ELSE IF IsBlacklisted(t) THEN "invalid"      \* 'Token invalidado'
  ELSE "payload"

\* AuthService.generateToken(user)
GenerateToken(t) ==
  /\ tokIat[t] = NoTime
  /\ tokIat' = [tokIat EXCEPT ![t] = NowSec]
  /\ UNCHANGED <<tnow, blacklist, revoked, verifyResult, authRedisUp>>
  /\ UNCHANGED notTokenVars

\* AuthService.verifyToken(token)
VerifyToken(t) ==
  /\ tokIat[t] # NoTime
  /\ verifyResult' = [verifyResult EXCEPT ![t] = VerifyTokenOutcome(t)]
  /\ UNCHANGED <<tnow, tokIat, blacklist, revoked, authRedisUp>>
  /\ UNCHANGED notTokenVars

\* the EX argument logout passes to SET
LogoutTtl(t) == TokenExp(t) - NowSec

\* AuthService.logout(token): SET blacklist:<token> '1' EX (exp - now).
\* Redis rejects a non-positive EX and the call throws; it throws too when the
\* server is unreachable.  Only a call that returns counts as completed.
Logout(t) ==
  /\ tokIat[t] # NoTime
  /\ authRedisUp
  /\ LogoutTtl(t) > 0
  /\ blacklist' = [blacklist EXCEPT ![t] = tnow + LogoutTtl(t) * SubTicks]
  /\ revoked' = [revoked EXCEPT ![t] = TRUE]
  /\ UNCHANGED <<tnow, tokIat, verifyResult, authRedisUp>>
  /\ UNCHANGED notTokenVars

\* AdminController.flushCache -> CacheService.flushAll -> FLUSHALL on the shared
\* Redis server: every key goes, the blacklist keys included.
TokenFlushCache ==
  /\ authRedisUp
  /\ \E t \in Tokens : blacklist[t] # NoTime
  /\ blacklist' = [t \in Tokens |-> NoTime]
  /\ UNCHANGED <<tnow, tokIat, revoked, verifyResult, authRedisUp>>
  /\ UNCHANGED notTokenVars

\* the Redis connection of the auth module drops or comes back
TokenRedisFlip ==
  /\ authRedisUp' = ~authRedisUp
  /\ UNCHANGED <<tnow, tokIat, blacklist, revoked, verifyResult>>
  /\ UNCHANGED notTokenVars

TokenTick ==
  /\ tnow < MaxTime
  /\ tnow' = tnow + 1
  /\ UNCHANGED <<tokIat, blacklist, revoked, verifyResult, authRedisUp>>
  /\ UNCHANGED notTokenVars

TokenInit ==
  /\ tnow = 0
  /\ tokIat = [t \in Tokens |-> NoTime]
  /\ blacklist = [t \in Tokens |-> NoTime]
  /\ revoked = [t \in Tokens |-> FALSE]
  /\ verifyResult = [t \in Tokens |-> "none"]
  /\ authRedisUp = TRUE


TokenNext ==
  \/ \E t \in Tokens : GenerateToken(t)
  \/ \E t \in Tokens : VerifyToken(t)
  \/ \E t \in Tokens : Logout(t)
  \/ TokenFlushCache
  \/ TokenRedisFlip
  \/ TokenTick

(***************************************************************************)
(* Login and its rate limiter                                              *)
(***************************************************************************)

MAX_LOGIN_ATTEMPTS == 5
LOGIN_WINDOW_MINUTES == 15
BLOCK_MINUTES == 30

\* Bounds of the login model.
MaxLoginCalls == 7      \* login calls started in one run
LTickStep == 5          \* minutes the clock advances by

\* login calls in flight at once, on whichever instances
LoginProcs == {"p1", "p2"}

\* The email the calls log in with; what the users table holds for it is chosen
\* by the initial state: an active account, a suspended one, or no row at all.
Emails == {"alice"}
AccountKinds == {"active", "suspended", "unknown"}

UserExists(e) == users[e].status # "unknown"

\* a key that is not there has no time left to live
NoKey == [points |-> 0, ttl |-> 0]
IdleLogin == [pc |-> "idle", email |-> "alice", pwOk |-> FALSE, late |-> FALSE,
              outcome |-> "none", delta |-> 0, reset |-> FALSE, dropped |-> FALSE]

RlLive(e) == rl[e].ttl > 0

\* (mutant) the key is SET without NX: every call starts the count again
RlUpsert_NoNX(e) == [points |-> 1, ttl |-> LOGIN_WINDOW_MINUTES]

\* RateLimiterRedis._upsert, one atomic Redis transaction:
\* SET key 0 EX duration NX; INCRBY key 1; PTTL key
RlUpsert(e) ==
  IF RlLive(e) THEN [points |-> rl[e].points + 1, ttl |-> rl[e].ttl]
  ELSE [points |-> 1, ttl |-> LOGIN_WINDOW_MINUTES]

\* (mutant) off by one: the call that takes the key to points + 1 still passes
RlRejects_OffByOne(consumedPoints) == consumedPoints > MAX_LOGIN_ATTEMPTS + 1

\* RateLimiterStoreAbstract._afterConsume: the call is rejected when the key
\* holds more than `points`
RlRejects(consumedPoints) == consumedPoints > MAX_LOGIN_ATTEMPTS

\* ... and the key is blocked only by the first call that exceeds `points`
RlBlocksNow(consumedPoints) ==
  BLOCK_MINUTES > 0 /\ consumedPoints <= MAX_LOGIN_ATTEMPTS + 1

\* AuthService.login(email, password) is called
LoginStart(p, e, ok) ==
  /\ lp[p].pc \in {"idle", "done"}
  /\ loginCalls < MaxLoginCalls
  /\ loginCalls' = loginCalls + 1
  /\ lp' = [lp EXCEPT ![p] = [IdleLogin EXCEPT !.pc = "consume", !.email = e, !.pwOk = ok]]
  /\ UNCHANGED <<rl, users, windowCalls, passedInWindow, everBlocked>>
  /\ UNCHANGED notLoginVars

\* await rateLimiter.consume(rlKey): the upsert and what _afterConsume decides;
\* redisOk tells whether the Redis round trip succeeds.
\* windowCalls and passedInWindow count, apart from the key's own points, the
\* calls the current key has seen and has let through.
LoginConsume(p, redisOk) ==
  LET e == lp[p].email
      fresh == ~RlLive(e)
      after == RlUpsert(e)
      ord == IF fresh THEN 1 ELSE windowCalls[e] + 1
  IN
  /\ lp[p].pc = "consume"
  /\ IF ~redisOk
     THEN /\ lp' = [lp EXCEPT ![p].pc = "recordFailure", ![p].outcome = "LimiterError"]
          /\ UNCHANGED <<rl, windowCalls, passedInWindow, everBlocked>>
     ELSE /\ rl' = [rl EXCEPT ![e] = after]
          /\ windowCalls' = [windowCalls EXCEPT ![e] = ord]
          /\ IF RlRejects(after.points)
             THEN /\ lp' = [lp EXCEPT ![p].late = ord > MAX_LOGIN_ATTEMPTS,
                                      ![p].pc = IF RlBlocksNow(after.points)
                                                THEN "block" ELSE "recordFailure",
                                      ![p].outcome = "RateLimited"]
                  /\ passedInWindow' =
                       [passedInWindow EXCEPT ![e] = IF fresh THEN 0 ELSE @]
                  /\ everBlocked' = [everBlocked EXCEPT ![e] = TRUE]
             ELSE /\ lp' = [lp EXCEPT ![p].late = ord > MAX_LOGIN_ATTEMPTS,
                                      ![p].pc = "credentials"]
                  /\ passedInWindow' =
                       [passedInWindow EXCEPT ![e] = IF fresh THEN 1 ELSE @ + 1]
                  /\ UNCHANGED everBlocked
  /\ UNCHANGED <<users, loginCalls>>
  /\ UNCHANGED notLoginVars

\* RateLimiterStoreAbstract._block: SET key <consumed points> EX blockDuration,
\* a second round trip; when it fails consume rejects with that error instead
LoginBlock(p, redisOk) ==
  LET e == lp[p].email IN
  /\ lp[p].pc = "block"
  /\ IF redisOk
     THEN /\ rl' = [rl EXCEPT ![e] = [points |-> MAX_LOGIN_ATTEMPTS + 1,
                                      ttl |-> BLOCK_MINUTES]]
          /\ windowCalls' = [windowCalls EXCEPT ![e] =
                               IF RlLive(e) THEN @ ELSE MAX_LOGIN_ATTEMPTS + 1]
          /\ passedInWindow' = [passedInWindow EXCEPT ![e] = IF RlLive(e) THEN @ ELSE 0]
          /\ lp' = [lp EXCEPT ![p].pc = "recordFailure"]
     ELSE /\ lp' = [lp EXCEPT ![p].pc = "recordFailure", ![p].outcome = "LimiterError"]
          /\ UNCHANGED <<rl, windowCalls, passedInWindow>>
  /\ UNCHANGED <<users, loginCalls, everBlocked>>
  /\ UNCHANGED notLoginVars

\* (mutant) an unknown email gets an error of its own
CredentialsError_TellsUnknown(exists, pwOk, status) ==
  IF ~exists THEN "UserNotFound"
  ELSE IF ~pwOk THEN "InvalidCredentials"
  ELSE IF status # "active" THEN "AccountDisabled"
  ELSE "none"

\* what login throws after the users query: Error('Credenciais inválidas') for
\* no row or a password that does not match, Error('Conta desativada') for a
\* status other than 'active'
CredentialsError(exists, pwOk, status) ==
  IF ~exists \/ ~pwOk THEN "InvalidCredentials"
  ELSE IF status # "active" THEN "AccountDisabled"
  ELSE "none"

\* the users query, bcrypt.compare and the status check of login; the query
\* rejects when the store fails
LoginCredentials(p, dbOk) ==
  LET e == lp[p].email
      error == IF dbOk THEN CredentialsError(UserExists(e), lp[p].pwOk, users[e].status)
               ELSE "StoreError"
  IN
  /\ lp[p].pc = "credentials"
  /\ lp' = [lp EXCEPT
       ![p].pc = IF error = "none" THEN "recordSuccess" ELSE "recordFailure",
       ![p].outcome = error]
  /\ UNCHANGED <<rl, users, loginCalls, windowCalls, passedInWindow, everBlocked>>
  /\ UNCHANGED notLoginVars

\* recordLoginSuccess, then return this.generateToken(user); when the update
\* rejects login goes to its catch.  reset remembers what the row held as the
\* token was returned.
LoginRecordSuccess(p, dbOk) ==
  LET e == lp[p].email IN
  /\ lp[p].pc = "recordSuccess"
  /\ IF dbOk
     THEN /\ users' = [users EXCEPT ![e].login_attempts = 0, ![e].last_login = "now()"]
          /\ lp' = [lp EXCEPT ![p].pc = "done", ![p].outcome = "token",
                              ![p].reset = (users'[e].login_attempts = 0
                                            /\ users'[e].last_login = "now()")]
     ELSE /\ lp' = [lp EXCEPT ![p].pc = "recordFailure", ![p].outcome = "StoreError"]
          /\ UNCHANGED users
  /\ UNCHANGED <<rl, loginCalls, windowCalls, passedInWindow, everBlocked>>
  /\ UNCHANGED notLoginVars

\* (mutant) the failure is counted twice
AttemptsAfterFailure_Twice(attempts) == attempts + 2

\* .increment('login_attempts', 1)
AttemptsAfterFailure(attempts) == attempts + 1

\* catch: recordLoginFailure(email, error.message), then throw error.  The
\* increment touches the rows with that email; when it rejects the error is
\* logged and dropped (dropped: the row's increment was lost).  delta remembers
\* by how much the counter moved.
LoginRecordFailure(p, dbOk) ==
  LET e == lp[p].email IN
  /\ lp[p].pc = "recordFailure"
  /\ users' = IF UserExists(e) /\ dbOk
              THEN [users EXCEPT ![e].login_attempts = AttemptsAfterFailure(@)]
              ELSE users
  /\ lp' = [lp EXCEPT ![p].pc = "done", ![p].dropped = (UserExists(e) /\ ~dbOk),
                      ![p].delta = users'[e].login_attempts - users[e].login_attempts]
  /\ UNCHANGED <<rl, loginCalls, windowCalls, passedInWindow, everBlocked>>
  /\ UNCHANGED notLoginVars

\* AdminController.flushCache: FLUSHALL deletes the limiter's keys too
LoginFlushCache ==
  /\ \E e \in Emails : rl[e] # NoKey
  /\ rl' = [e \in Emails |-> NoKey]
  /\ UNCHANGED <<users, lp, loginCalls, windowCalls, passedInWindow, everBlocked>>
  /\ UNCHANGED notLoginVars

\* LTickStep minutes pass: every key comes that much closer to its expiry, and a
\* key whose time is up is gone
LoginTick ==
  /\ \E e \in Emails : RlLive(e)
  /\ rl' = [e \in Emails |->
             IF rl[e].ttl > LTickStep THEN [rl[e] EXCEPT !.ttl = @ - LTickStep] ELSE NoKey]
  /\ UNCHANGED <<users, lp, loginCalls, windowCalls, passedInWindow, everBlocked>>
  /\ UNCHANGED notLoginVars

LoginInitWith(k) ==
  /\ rl = [e \in Emails |-> NoKey]
  /\ users = [e \in Emails |->
                [status |-> k, login_attempts |-> 0, last_login |-> "null"]]
  /\ lp = [p \in LoginProcs |-> IdleLogin]
  /\ loginCalls = 0
  /\ windowCalls = [e \in Emails |-> 0]
  /\ passedInWindow = [e \in Emails |-> 0]
  /\ everBlocked = [e \in Emails |-> FALSE]

LoginInit == \E k \in AccountKinds : LoginInitWith(k)

LoginNext ==
  \/ \E p \in LoginProcs, e \in Emails, ok \in BOOLEAN : LoginStart(p, e, ok)
  \/ \E p \in LoginProcs, redisOk \in BOOLEAN : LoginConsume(p, redisOk)
  \/ \E p \in LoginProcs, redisOk \in BOOLEAN : LoginBlock(p, redisOk)
  \/ \E p \in LoginProcs, dbOk \in BOOLEAN : LoginCredentials(p, dbOk)
  \/ \E p \in LoginProcs, dbOk \in BOOLEAN : LoginRecordSuccess(p, dbOk)
  \/ \E p \in LoginProcs, dbOk \in BOOLEAN : LoginRecordFailure(p, dbOk)
  \/ LoginFlushCache
  \/ LoginTick

(***************************************************************************)
(* ChatController: handshake, message pipeline, disconnect                 *)
(***************************************************************************)

MAX_MESSAGE_LENGTH == 500
CACHE_TTL == 3600
SESSION_SECONDS == 3600

\* Bound of the chat model.
ChatTickStep == 1800    \* seconds the clock advances by

\* the messages of a run, numbered in the order they arrive: the initial state
\* fixes how many there are
Msgs == DOMAIN pipe
MsgIds == {1, 2}
Conns == {"c1", "c2"}

\* the user a connection's token names
UserOf(c) == IF c = "c1" THEN "u1" ELSE "u2"

\* the users 'experimental-model' is on for, as long as the flag is as it is
ExperimentalUsers == {"u1"}

\* Message contents: the empty text, a short text, and texts of exactly 500 and
\* of 501 characters.
Contents == {"", "a", "A500", "A501"}
ContentLength(x) ==
  CASE x = "" -> 0
    [] x = "a" -> 1
    [] x = "A500" -> 500
    [] x = "A501" -> 501

\* Texts the AI service may return: the standard model answers "" or "std", the
\* experimental one "" or "exp".
Responses == {"", "std", "exp"}
Generated(experimental) == IF experimental THEN {"", "exp"} ELSE {"", "std"}

\* ChatController.validateMessage
validateMessage(content) ==
  ContentLength(content) > 0 /\ ContentLength(content) <= MAX_MESSAGE_LENGTH

\* JSON.stringify of a string, and JSON.parse of what Redis returned
JSONstringify(v) == "\"" \o v \o "\""
JSONparse(data) == CHOOSE v \in Responses : JSONstringify(v) = data

\* JavaScript truthiness of a string or null
Truthy(v) == v # "null" /\ v # ""

NoEntry == [data |-> "null", ttl |-> 0]
MemoLive(k) == memo[k].ttl > 0

\* CacheService.get(key): the stored data parsed, null when the key is absent or
\* the Redis call failed (caught, logged, null)
CacheGet(k, redisOk) ==
  IF redisOk /\ MemoLive(k) /\ Truthy(memo[k].data) THEN JSONparse(memo[k].data)
  ELSE "null"

\* CacheService.set(key, value, ttl): the key after the call
CacheSet(k, value, redisOk) ==
  IF redisOk THEN [data |-> JSONstringify(value), ttl |-> CACHE_TTL] ELSE memo[k]

\* processWithAI: `if (cachedResponse)`
IsCacheHit(cachedResponse) == Truthy(cachedResponse)

NoPipe == [pc |-> "none", conn |-> "c1", content |-> "", err |-> "none", sid |-> 0,
           held |-> "null", hit |-> FALSE, experimental |-> FALSE, gen |-> "none",
           resp |-> "null"]
IdleConn == [open |-> FALSE, hs |-> "idle", verify |-> "pending", user |-> "undefined",
             sessionId |-> 0, raised |-> FALSE]

Settled(m) == pipe[m].pc \in {"done", "failed", "crashed"}
NextMsg == CHOOSE m \in Msgs : pipe[m].pc = "none" /\ \A k \in Msgs : k < m => pipe[k].pc # "none"
OpenConns == {c \in Conns : conn[c].open}

\* the row storeMessage inserts; sid is socket.data.sessionId as the transaction
\* callback read it
MessageRow(m, isBot, text, sid) ==
  [msg |-> m, is_bot |-> isBot, content |-> text,
   session_id |-> sid, user_id |-> conn[pipe[m].conn].user]

\* the callback of storeMessage runs some time between the call and the insert:
\* it reads socket.data.sessionId as it was at the call or as it is by now
SidRead(m) == {pipe[m].sid, conn[pipe[m].conn].sessionId}

\* (mutant) a closed socket is written to as well
ServerEmit_AllConns(m, isBot) == [kind |-> "message", msg |-> m, is_bot |-> isBot, to |-> Conns]

\* this.server.emit('message', row): every connected socket gets it
ServerEmit(m, isBot) == [kind |-> "message", msg |-> m, is_bot |-> isBot, to |-> OpenConns]

\* (mutant) the catch block tells nobody
SocketEmitError_Nobody(m) == [kind |-> "error", msg |-> m, is_bot |-> FALSE, to |-> {}]

\* socket.emit('error', ...) in the catch of handleMessage: only the sender, and
\* nothing when the socket is closed
SocketEmitError(m) ==
  [kind |-> "error", msg |-> m, is_bot |-> FALSE,
   to |-> IF conn[pipe[m].conn].open THEN {pipe[m].conn} ELSE {}]

\* handleDisconnect(socket) starts with socket.data.user.id: a TypeError when
\* the handshake has not set socket.data.user; nothing catches it
HandleDisconnectThrows(c) == conn[c].open /\ conn[c].user = "undefined"

\* a client opens a connection and handleConnection starts: await verifyToken(token)
Connect(c) ==
  /\ conn[c].hs = "idle"
  /\ c = "c2" => conn["c1"].hs # "idle"    \* c1 names the first one to connect
  /\ conn' = [conn EXCEPT ![c].open = TRUE, ![c].hs = "verifying"]
  /\ UNCHANGED <<sessions, messages, pipe, memo, emitted, published, flagCalls,
                 aiCalls, cacheWrites>>
  /\ UNCHANGED notChatVars

HandshakeProceeds_Always(tokenOk) == TRUE

\* handleConnection goes on to createUserSession only when verifyToken resolved
HandshakeProceeds(tokenOk) == tokenOk

\* verifyToken settles (verify remembers how): on a payload socket.data.user is set and createUserSession
\* issues its insert; on a failure the catch calls socket.disconnect(true), which
\* runs handleDisconnect (when the socket is still connected), and that throws
\* on the missing socket.data.user: the error leaves handleDisconnect uncaught
\* (raised)
VerifySettles(c, tokenOk) ==
  /\ conn[c].hs = "verifying"
  /\ LET verified == [conn EXCEPT ![c].verify = IF tokenOk THEN "ok" ELSE "failed"] IN
     IF HandshakeProceeds(tokenOk)
     THEN conn' = [verified EXCEPT ![c].hs = "creatingSession", ![c].user = UserOf(c)]
     ELSE conn' = [verified EXCEPT ![c].hs = "rejected", ![c].open = FALSE,
                                  ![c].raised = @ \/ HandleDisconnectThrows(c)]
  /\ UNCHANGED <<sessions, messages, pipe, memo, emitted, published, flagCalls,
                 aiCalls, cacheWrites>>
  /\ UNCHANGED notChatVars

\* sendSystemMessage: redisPublisher.publish('chat-events', ...), not awaited
sendSystemMessage(type, c) == published \cup {[type |-> type, conn |-> c]}

\* the insert of createUserSession settles: the row exists, socket.data.sessionId
\* is set and the join notice is published; on a store failure the catch
\* disconnects the socket, and handleDisconnect publishes the leave notice
SessionInsertSettles(c, dbOk) ==
  /\ conn[c].hs = "creatingSession"
  /\ IF dbOk
     THEN /\ sessions' = Append(sessions, [conn |-> c, user_id |-> conn[c].user,
                                           expiresIn |-> SESSION_SECONDS])
          /\ conn' = [conn EXCEPT ![c].hs = "active", ![c].sessionId = Len(sessions) + 1]
          /\ published' = sendSystemMessage("join", c)
     ELSE /\ conn' = [conn EXCEPT ![c].hs = "rejected", ![c].open = FALSE]
          /\ published' = IF conn[c].open THEN sendSystemMessage("leave", c)
                          ELSE published
          /\ UNCHANGED sessions
  /\ UNCHANGED <<messages, pipe, memo, emitted, flagCalls, aiCalls, cacheWrites>>
  /\ UNCHANGED notChatVars

\* handleDisconnect builds the query
\*   Database.instance('sessions').where('id', sessionId).update({expires_at: now})
\* and drops it: a knex builder runs only when it is awaited or .then() is called,
\* so the table stays as it is
SessionsAfterDisconnect(c) == sessions

\* the client goes away: handleDisconnect(socket).  It throws at its first line
\* when socket.data.user is not set yet.  A handshake that is still waiting goes
\* on; an Active connection becomes "disconnected".
Disconnect(c) ==
  /\ conn[c].open
  /\ conn' = [conn EXCEPT ![c].open = FALSE,
                          ![c].hs = IF @ = "active" THEN "disconnected" ELSE @,
                          ![c].raised = @ \/ HandleDisconnectThrows(c)]
  /\ IF conn[c].user = "undefined"
     THEN UNCHANGED <<published, sessions>>
     ELSE /\ published' = sendSystemMessage("leave", c)
          /\ sessions' = SessionsAfterDisconnect(c)
  /\ UNCHANGED <<messages, pipe, memo, emitted, flagCalls, aiCalls, cacheWrites>>
  /\ UNCHANGED notChatVars

\* what the catch block of handleMessage does: the error event, and the message is over
FailMessage(m, why) ==
  /\ emitted' = emitted \cup {SocketEmitError(m)}
  /\ pipe' = [pipe EXCEPT ![m].pc = "failed", ![m].err = why]

\* a 'message' event arrives on a connection and handleMessage runs up to its
\* first await.  With socket.data.user not set the span attributes throw, and the
\* catch block throws again at socket.data.user.id: the handler rejects with
\* nothing emitted.  An invalid message goes to the catch block.  A valid one
\* calls storeMessage(socket, content, false).
Receive(c, content) ==
  LET m == NextMsg
      started == [NoPipe EXCEPT !.conn = c, !.content = content]
  IN
  /\ conn[c].open
  /\ \E k \in Msgs : pipe[k].pc = "none"
  /\ IF conn[c].user = "undefined"
     THEN /\ pipe' = [pipe EXCEPT ![m] = [started EXCEPT !.pc = "crashed"]]
          /\ UNCHANGED emitted
     ELSE IF ~validateMessage(content)
     THEN /\ pipe' = [pipe EXCEPT ![m] = [started EXCEPT !.pc = "failed", !.err = "invalid"]]
          /\ emitted' = emitted \cup {[kind |-> "error", msg |-> m, is_bot |-> FALSE,
                                       to |-> {c}]}
     ELSE /\ pipe' = [pipe EXCEPT ![m] = [started EXCEPT !.pc = "storeUser",
                                                         !.sid = conn[c].sessionId]]
          /\ UNCHANGED emitted
  /\ UNCHANGED <<conn, sessions, messages, memo, published, flagCalls, aiCalls,
                 cacheWrites>>
  /\ UNCHANGED notChatVars

\* the insert of the user message settles: the row is committed in a transaction
\* of its own and emitted; processWithAI starts with cacheService.get(content)
StoreUserSettles(m, dbOk, sid) ==
  /\ m \in Msgs
  /\ pipe[m].pc = "storeUser"
  /\ sid \in SidRead(m)
  /\ IF dbOk
     THEN /\ messages' = messages \cup {MessageRow(m, FALSE, pipe[m].content, sid)}
          /\ emitted' = emitted \cup {ServerEmit(m, FALSE)}
          /\ pipe' = [pipe EXCEPT ![m].pc = "cacheGet"]
     ELSE /\ FailMessage(m, "store")
          /\ UNCHANGED messages
  /\ UNCHANGED <<conn, sessions, memo, published, flagCalls, aiCalls, cacheWrites>>
  /\ UNCHANGED notChatVars

\* cacheService.get settles.  held is what the key held when Redis answered,
\* remembered until the next step of the message.  On a
\* hit processWithAI returns the cached text and storeMessage(socket, text, true)
\* is called; otherwise featureFlags.checkFlag is called.
CacheGetSettles(m, redisOk) ==
  LET k == pipe[m].content
      cachedResponse == CacheGet(k, redisOk)
      held == IF redisOk /\ MemoLive(k) THEN JSONparse(memo[k].data) ELSE "null"
  IN
  /\ m \in Msgs
  /\ pipe[m].pc = "cacheGet"
  /\ IF IsCacheHit(cachedResponse)
     THEN /\ pipe' = [pipe EXCEPT ![m].pc = "storeBot", ![m].held = held, ![m].hit = TRUE,
                                  ![m].resp = cachedResponse,
                                  ![m].sid = conn[pipe[m].conn].sessionId]
          /\ UNCHANGED flagCalls
     ELSE /\ pipe' = [pipe EXCEPT ![m].pc = "flag", ![m].held = held]
          /\ flagCalls' = flagCalls \cup {m}
  /\ UNCHANGED <<conn, sessions, messages, memo, emitted, published, aiCalls, cacheWrites>>
  /\ UNCHANGED notChatVars

\* checkFlag('experimental-model', userId) settles and the AI service is called
FlagSettles(m, useExperimental) ==
  /\ m \in Msgs
  /\ pipe[m].pc = "flag"
  /\ pipe' = [pipe EXCEPT ![m].pc = "generate", ![m].experimental = useExperimental,
                          ![m].held = "null"]
  /\ aiCalls' = aiCalls \cup {m}
  /\ UNCHANGED <<conn, sessions, messages, memo, emitted, published, flagCalls, cacheWrites>>
  /\ UNCHANGED notChatVars

AfterGenerate_Swallowed(result) == "cacheSet"

\* processWithAI after the AI call: a rejection leaves through the catch of
\* handleMessage, a text goes on to cacheService.set
AfterGenerate(result) == IF result = "error" THEN "failed" ELSE "cacheSet"

\* the AI call settles; gen remembers how
GenerateSettles(m, result) ==
  /\ m \in Msgs
  /\ pipe[m].pc = "generate"
  /\ result \in Generated(pipe[m].experimental) \cup {"error"}
  /\ LET settled == IF result = "error" THEN "rejected" ELSE "resolved" IN
     IF AfterGenerate(result) = "failed"
     THEN /\ emitted' = emitted \cup {SocketEmitError(m)}
          /\ pipe' = [pipe EXCEPT ![m].pc = "failed", ![m].err = "generation",
                                  ![m].gen = settled]
     ELSE /\ pipe' = [pipe EXCEPT ![m].pc = "cacheSet", ![m].resp = result,
                                  ![m].gen = settled]
          /\ UNCHANGED emitted
  /\ UNCHANGED <<conn, sessions, messages, memo, published, flagCalls, aiCalls, cacheWrites>>
  /\ UNCHANGED notChatVars

\* cacheService.set(content, response, 3600) settles (a failure is caught and
\* logged); processWithAI returns and storeMessage(socket, aiResponse, true) is called
CacheSetSettles(m, redisOk) ==
  LET k == pipe[m].content IN
  /\ m \in Msgs
  /\ pipe[m].pc = "cacheSet"
  /\ memo' = [memo EXCEPT ![k] = CacheSet(k, pipe[m].resp, redisOk)]
  /\ cacheWrites' = IF redisOk THEN cacheWrites \cup {m} ELSE cacheWrites
  /\ pipe' = [pipe EXCEPT ![m].pc = "storeBot", ![m].sid = conn[pipe[m].conn].sessionId]
  /\ UNCHANGED <<conn, sessions, messages, emitted, published, flagCalls, aiCalls>>
  /\ UNCHANGED notChatVars

\* the insert of the bot message settles: committed and emitted, or the catch block
StoreBotSettles(m, dbOk, sid) ==
  /\ m \in Msgs
  /\ pipe[m].pc = "storeBot"
  /\ sid \in SidRead(m)
  /\ IF dbOk
     THEN /\ messages' = messages \cup {MessageRow(m, TRUE, pipe[m].resp, sid)}
          /\ emitted' = emitted \cup {ServerEmit(m, TRUE)}
          /\ pipe' = [pipe EXCEPT ![m].pc = "done"]
     ELSE /\ FailMessage(m, "store")
          /\ UNCHANGED messages
  /\ UNCHANGED <<conn, sessions, memo, published, flagCalls, aiCalls, cacheWrites>>
  /\ UNCHANGED notChatVars

\* ChatTickStep seconds of the life of the memoized replies pass (EX of
\* cacheService.set)
ChatTick ==
  /\ \E k \in Contents : MemoLive(k)
  /\ memo' = [k \in Contents |->
               IF memo[k].ttl > ChatTickStep THEN [memo[k] EXCEPT !.ttl = @ - ChatTickStep]
               ELSE NoEntry]
  /\ UNCHANGED <<conn, sessions, messages, pipe, emitted, published, flagCalls, aiCalls,
                 cacheWrites>>
  /\ UNCHANGED notChatVars

\* ChatTickStep seconds of the life of the Session rows pass (expires_at against
\* now() in getActiveChatCount)
SessionTick ==
  /\ \E i \in 1..Len(sessions) : sessions[i].expiresIn > 0
  /\ sessions' = [i \in 1..Len(sessions) |->
                   [sessions[i] EXCEPT !.expiresIn =
                      IF @ > ChatTickStep THEN @ - ChatTickStep ELSE 0]]
  /\ UNCHANGED <<conn, messages, pipe, memo, emitted, published, flagCalls, aiCalls,
                 cacheWrites>>
  /\ UNCHANGED notChatVars

\* the two Active connections are alike: c1 names the one the first message comes from
ReceiveOrdered(c, content) ==
  /\ pipe[1].pc = "none" => c = "c1"
  /\ Receive(c, content)

\* no connection yet, and room for the messages msgs
ChatIdle(msgs) ==
  /\ conn = [c \in Conns |-> IdleConn]
  /\ sessions = <<>>
  /\ messages = {}
  /\ pipe = [m \in msgs |-> NoPipe]
  /\ memo = [k \in Contents |-> NoEntry]
  /\ emitted = {}
  /\ published = {}
  /\ flagCalls = {}
  /\ aiCalls = {}
  /\ cacheWrites = {}

\* both connections have completed their handshake, c1 first
ChatActive(msgs) ==
  /\ conn = [c \in Conns |-> [open |-> TRUE, hs |-> "active", verify |-> "ok",
                               user |-> UserOf(c),
                               sessionId |-> IF c = "c1" THEN 1 ELSE 2,
                               raised |-> FALSE]]
  /\ sessions = <<[conn |-> "c1", user_id |-> UserOf("c1"), expiresIn |-> SESSION_SECONDS],
                  [conn |-> "c2", user_id |-> UserOf("c2"), expiresIn |-> SESSION_SECONDS]>>
  /\ messages = {}
  /\ pipe = [m \in msgs |-> NoPipe]
  /\ memo = [k \in Contents |-> NoEntry]
  /\ emitted = {}
  /\ published = {[type |-> "join", conn |-> "c1"], [type |-> "join", conn |-> "c2"]}
  /\ flagCalls = {}
  /\ aiCalls = {}
  /\ cacheWrites = {}

ChatParked == ChatIdle({1})

\* connections from the handshake on, with one message
ConnNext ==
  \/ \E c \in Conns : Connect(c)
  \/ \E c \in Conns, tokenOk \in BOOLEAN : VerifySettles(c, tokenOk)
  \/ \E c \in Conns, dbOk \in BOOLEAN : SessionInsertSettles(c, dbOk)
  \/ \E c \in Conns : Disconnect(c)
  \/ \E c \in Conns, content \in Contents : Receive(c, content)
  \/ \E m \in MsgIds, dbOk \in BOOLEAN, sid \in 0..Cardinality(Conns) : StoreUserSettles(m, dbOk, sid)
  \/ \E m \in MsgIds, redisOk \in BOOLEAN : CacheGetSettles(m, redisOk)
  \/ \E m \in MsgIds, useExperimental \in BOOLEAN : FlagSettles(m, useExperimental)
  \/ \E m \in MsgIds, result \in Responses \cup {"error"} : GenerateSettles(m, result)
  \/ \E m \in MsgIds, redisOk \in BOOLEAN : CacheSetSettles(m, redisOk)
  \/ \E m \in MsgIds, dbOk \in BOOLEAN, sid \in 0..Cardinality(Conns) : StoreBotSettles(m, dbOk, sid)
  \/ ChatTick
  \/ SessionTick

\* two messages on connections that are Active
ChatNext ==
  \/ \E c \in Conns : Disconnect(c)
  \/ \E c \in Conns, content \in Contents : ReceiveOrdered(c, content)
  \/ \E m \in MsgIds, dbOk \in BOOLEAN, sid \in 0..Cardinality(Conns) : StoreUserSettles(m, dbOk, sid)
  \/ \E m \in MsgIds, redisOk \in BOOLEAN : CacheGetSettles(m, redisOk)
  \/ \E m \in MsgIds, useExperimental \in BOOLEAN : FlagSettles(m, useExperimental)
  \/ \E m \in MsgIds, result \in Responses \cup {"error"} : GenerateSettles(m, result)
  \/ \E m \in MsgIds, redisOk \in BOOLEAN : CacheSetSettles(m, redisOk)
  \/ \E m \in MsgIds, dbOk \in BOOLEAN, sid \in 0..Cardinality(Conns) : StoreBotSettles(m, dbOk, sid)
  \/ ChatTick

(***************************************************************************)
(* server.ts: the 'message' handler of the socket.io server                *)
(***************************************************************************)

NoReply == [kind |-> "none", text |-> "null", cached |-> FALSE, model |-> "none"]

\* callback({ error: 'Failed to process message' })
ErrorReply == [kind |-> "error", text |-> "null", cached |-> FALSE, model |-> "none"]

SrvNoMsg == [pc |-> "none", text |-> "", probed |-> FALSE, flagged |-> FALSE,
             generated |-> FALSE, experimental |-> FALSE, response |-> "null",
             reply |-> NoReply]

SrvNextMsg ==
  CHOOSE m \in MsgIds : srvMsg[m].pc = "none" /\ \A k \in MsgIds : k < m => srvMsg[k].pc # "none"

\* redisClient.get(message.text): the string stored, or null
SrvCacheGet(k) == IF srvCache[k].ttl > 0 THEN srvCache[k].data ELSE "null"

\* a 'message' event arrives and the handler runs up to its first await, which is
\* redisClient.get(message.text)
SrvReceive(text) ==
  /\ \E k \in MsgIds : srvMsg[k].pc = "none"
  /\ srvMsg' = [srvMsg EXCEPT ![SrvNextMsg] =
                  [SrvNoMsg EXCEPT !.pc = "cacheGet", !.text = text, !.probed = TRUE]]
  /\ UNCHANGED srvCache
  /\ UNCHANGED notSrvVars

\* the GET settles: a Redis error goes to the catch, a truthy value is called back
\* as the reply with cached: true, anything else goes on to checkFlag
SrvCacheGetSettles(m, redisOk) ==
  LET cachedResponse == SrvCacheGet(srvMsg[m].text) IN
  /\ srvMsg[m].pc = "cacheGet"
  /\ srvMsg' = [srvMsg EXCEPT ![m] =
       IF ~redisOk THEN [@ EXCEPT !.pc = "failed", !.reply = ErrorReply]
       ELSE IF Truthy(cachedResponse)
       THEN [@ EXCEPT !.pc = "done",
                      !.reply = [kind |-> "reply", text |-> cachedResponse,
                                 cached |-> TRUE, model |-> "none"]]
       ELSE [@ EXCEPT !.pc = "flag", !.flagged = TRUE]]
  /\ UNCHANGED srvCache
  /\ UNCHANGED notSrvVars

\* checkFlag settles and the AI service is called
SrvFlagSettles(m, useExperimental) ==
  /\ srvMsg[m].pc = "flag"
  /\ srvMsg' = [srvMsg EXCEPT ![m].pc = "generate", ![m].experimental = useExperimental,
                              ![m].generated = TRUE]
  /\ UNCHANGED srvCache
  /\ UNCHANGED notSrvVars

\* the AI call settles: a rejection goes to the catch, a text to redisClient.setEx
SrvGenerateSettles(m, result) ==
  /\ srvMsg[m].pc = "generate"
  /\ result \in Generated(srvMsg[m].experimental) \cup {"error"}
  /\ srvMsg' = [srvMsg EXCEPT ![m] =
       IF result = "error" THEN [@ EXCEPT !.pc = "failed", !.reply = ErrorReply]
       ELSE [@ EXCEPT !.pc = "cacheSet", !.response = result]]
  /\ UNCHANGED srvCache
  /\ UNCHANGED notSrvVars

\* redisClient.setEx(message.text, 3600, response) settles: the text is stored as
\* it is and called back with the model's name; a Redis error goes to the catch
SrvCacheSetSettles(m, redisOk) ==
  /\ srvMsg[m].pc = "cacheSet"
  /\ IF redisOk
     THEN /\ srvCache' = [srvCache EXCEPT ![srvMsg[m].text] =
                            [data |-> srvMsg[m].response, ttl |-> CACHE_TTL]]
          /\ srvMsg' = [srvMsg EXCEPT ![m].pc = "done",
                          ![m].reply = [kind |-> "reply", text |-> srvMsg[m].response,
                                        cached |-> FALSE,
                                        model |-> IF srvMsg[m].experimental
                                                  THEN "experimental" ELSE "stable"]]
     ELSE /\ srvMsg' = [srvMsg EXCEPT ![m].pc = "failed", ![m].reply = ErrorReply]
          /\ UNCHANGED srvCache
  /\ UNCHANGED notSrvVars

\* ChatTickStep seconds of the life of the keys pass
SrvTick ==
  /\ \E k \in Contents : srvCache[k].ttl > 0
  /\ srvCache' = [k \in Contents |->
                    IF srvCache[k].ttl > ChatTickStep
                    THEN [srvCache[k] EXCEPT !.ttl = @ - ChatTickStep]
                    ELSE NoEntry]
  /\ UNCHANGED srvMsg
  /\ UNCHANGED notSrvVars

SrvInit ==
  /\ srvMsg = [m \in MsgIds |-> SrvNoMsg]
  /\ srvCache = [k \in Contents |-> NoEntry]

SrvNext ==
  \/ \E text \in Contents : SrvReceive(text)
  \/ \E m \in MsgIds, redisOk \in BOOLEAN : SrvCacheGetSettles(m, redisOk)
  \/ \E m \in MsgIds, useExperimental \in BOOLEAN : SrvFlagSettles(m, useExperimental)
  \/ \E m \in MsgIds, result \in Responses \cup {"error"} : SrvGenerateSettles(m, result)
  \/ \E m \in MsgIds, redisOk \in BOOLEAN : SrvCacheSetSettles(m, redisOk)
  \/ SrvTick

(***************************************************************************)
(* FeatureFlagService: isEnabled and the evaluation of strategies          *)
(***************************************************************************)

\* Bound of the evaluation model.
MaxStrategies == 2      \* strategies in a flag's list

\* user ids as the code units charCodeAt reads: "bob", "u1", "user-42"
FlagUserIds == {<<98, 111, 98>>, <<117, 49>>, <<117, 115, 101, 114, 45, 52, 50>>}

\* an absent or empty string (both are falsy)
NoString == <<>>

\* IPv4 addresses, by octet
Addrs == {<<10, 0, 0, 5>>, <<10, 0, 1, 5>>}

Contexts == [userId : FlagUserIds \cup {NoString}, ipAddress : Addrs \cup {NoString}]

\* an entry of a strategy's ips: a plain address, or base/bits when it has a '/'
ExactEntry(a) == [slash |-> FALSE, addr |-> a, bits |-> 32]
CidrEntry(a, b) == [slash |-> TRUE, addr |-> a, bits |-> b]

FeatureStrategy(type, userList, percentage, ips) ==
  [type |-> type, users |-> userList, percentage |-> percentage, ips |-> ips]

FlagStrategies ==
  { FeatureStrategy("userIds", {<<98, 111, 98>>}, 0, {}),
    FeatureStrategy("gradualRollout", {}, 17, {}),
    FeatureStrategy("gradualRollout", {}, 60, {}),
    FeatureStrategy("ipRange", {}, 0, {ExactEntry(<<10, 0, 0, 5>>)}),
    FeatureStrategy("ipRange", {}, 0, {CidrEntry(<<10, 0, 0, 0>>, 24)}),
    FeatureStrategy("custom", {}, 0, {}),
    FeatureStrategy("geo", {}, 0, {}) }

StrategyLists == UNION {[1..n -> FlagStrategies] : n \in 0..MaxStrategies}

\* The hash feature:<name> as hGetAll returns it.  The strategies field is the
\* JSON of a list, text that is no JSON, the JSON of something that is no list
\* ('{}'), or missing; a missing key reads as the empty object.
StoredFlags ==
  {[enabled |-> "undefined", form |-> "undefined", list |-> <<>>]}
    \cup [enabled : {"true", "false"}, form : {"json"}, list : StrategyLists]
    \cup [enabled : {"true", "false"}, form : {"malformed", "notList", "undefined"},
          list : {<<>>}]

\* parseFlag: null when JSON.parse throws, else the flag with
\* enabled = (data.enabled === 'true') and strategies = JSON.parse(data.strategies || '[]')
parseFlag(data) ==
  IF data.form = "malformed"
  THEN [null |-> TRUE, enabled |-> FALSE, isList |-> FALSE, strategies |-> <<>>]
  ELSE [null |-> FALSE, enabled |-> (data.enabled = "true"),
        isList |-> (data.form # "notList"), strategies |-> data.list]

\* (x * 2^16 + y) % 100 for the two halves of a 32-bit number
Mod100(hi, lo) == ((hi % 100) * 36 + lo) % 100

\* hashString: hash = ((hash << 5) - hash) + charCodeAt(i); hash |= 0, over the
\* string, then Math.abs.  The 32-bit hash is kept as two 16-bit halves.
RECURSIVE HashFrom(_, _, _, _)
HashFrom(str, i, hi, lo) ==
  IF i > Len(str) THEN [hi |-> hi, lo |-> lo]
  ELSE LET low == 31 * lo + str[i]
       IN HashFrom(str, i + 1, (31 * hi + (low \div 65536)) % 65536, low % 65536)

\* a number of the hash's range: its sign, and its magnitude (at most 2^31) as two
\* 16-bit halves
Magnitude(h) ==
  IF h.hi >= 32768           \* negative as an int32: the magnitude is 2^32 - h
  THEN [hi |-> 65535 - h.hi + (IF h.lo = 0 THEN 1 ELSE 0), lo |-> (65536 - h.lo) % 65536]
  ELSE h

\* (mutant) the hash is returned as the loop left it, without Math.abs
hashString_NoAbs(str) ==
  LET h == HashFrom(str, 1, 0, 0) IN [neg |-> h.hi >= 32768] @@ Magnitude(h)

hashString(str) ==
  LET h == HashFrom(str, 1, 0, 0) IN [neg |-> FALSE] @@ Magnitude(h)

\* hash % 100 of JavaScript: the remainder has the sign of the dividend
Rem100(hash) == IF hash.neg THEN 0 - Mod100(hash.hi, hash.lo) ELSE Mod100(hash.hi, hash.lo)

checkPercentageRollout_Inclusive(userId, percentage) ==
  IF userId = NoString THEN FALSE
  ELSE Rem100(hashString(userId)) <= percentage

\* (mutant) the comparison the other way round
checkPercentageRollout_Flipped(userId, percentage) ==
  IF userId = NoString THEN FALSE
  ELSE Rem100(hashString(userId)) >= percentage

\* checkPercentageRollout: false without a user id, else (hash % 100) < percentage
checkPercentageRollout(userId, percentage) ==
  IF userId = NoString THEN FALSE
  ELSE Rem100(hashString(userId)) < percentage

\* isIpInCIDR: "omitted for brevity", returns false
isIpInCIDR(ip, cidr) == FALSE

\* checkIpRange: some entry with a '/' contains the address, or equals it
checkIpRange(ip, ranges) ==
  \E range \in ranges : IF range.slash THEN isIpInCIDR(ip, range) ELSE ip = range.addr

\* the predicates a caller puts in a custom strategy's rule
Rules == {"hasUserId", "never"}
RuleHolds(rule, context) == rule = "hasUserId" /\ context.userId # NoString

\* strategy.rule: a function, or undefined (a rule read from JSON is never a function)
RuleOf(strategy) == IF "rule" \in DOMAIN strategy THEN strategy.rule ELSE "undefined"

\* one case of the switch in evaluateFlag
StrategyMatches(strategy, context) ==
  CASE strategy.type = "userIds" -> context.userId \in strategy.users
    [] strategy.type = "gradualRollout" ->
         checkPercentageRollout(context.userId, strategy.percentage)
    [] strategy.type = "ipRange" -> checkIpRange(context.ipAddress, strategy.ips)
    [] strategy.type = "custom" ->
         RuleOf(strategy) # "undefined" /\ RuleHolds(RuleOf(strategy), context)
    [] OTHER -> FALSE

\* Array.prototype.some over the list: the value and how many strategies it evaluated
RECURSIVE SomeFrom(_, _, _)
SomeFrom(strategies, context, i) ==
  IF i > Len(strategies) THEN [value |-> FALSE, evaluated |-> Len(strategies)]
  ELSE IF StrategyMatches(strategies[i], context) THEN [value |-> TRUE, evaluated |-> i]
  ELSE SomeFrom(strategies, context, i + 1)

evaluateFlag_IgnoresEnabled(flag, context) ==
  IF ~flag.isList THEN [threw |-> TRUE, value |-> FALSE, evaluated |-> 0]
  ELSE IF Len(flag.strategies) = 0 THEN [threw |-> FALSE, value |-> TRUE, evaluated |-> 0]
  ELSE [threw |-> FALSE] @@ SomeFrom(flag.strategies, context, 1)

\* evaluateFlag: false when disabled, true without strategies, else some(...);
\* strategies.some is a TypeError when strategies is no list
evaluateFlag(flag, context) ==
  IF ~flag.enabled THEN [threw |-> FALSE, value |-> FALSE, evaluated |-> 0]
  ELSE IF ~flag.isList THEN [threw |-> TRUE, value |-> FALSE, evaluated |-> 0]
  ELSE IF Len(flag.strategies) = 0 THEN [threw |-> FALSE, value |-> TRUE, evaluated |-> 0]
  ELSE [threw |-> FALSE] @@ SomeFrom(flag.strategies, context, 1)

\* getFlag: the mirrored flag, else the hash read from Redis and parsed; a failed
\* read is rethrown
getFlag(data, mirrored, storeOk) ==
  IF mirrored THEN [threw |-> FALSE, flag |-> parseFlag(data)]
  ELSE IF ~storeOk THEN [threw |-> TRUE, flag |-> parseFlag(data)]
  ELSE [threw |-> FALSE, flag |-> parseFlag(data)]

\* isEnabled: what it returns, whether it rejected, whether trackFeatureFlagError
\* counted an error, and whether an error was caught anywhere on the way
isEnabled(data, mirrored, storeOk, context) ==
  LET got == getFlag(data, mirrored, storeOk)
      ev == evaluateFlag(got.flag, context)
  IN
  IF got.threw
  THEN [result |-> FALSE, rejected |-> FALSE, errorCounted |-> TRUE, caught |-> TRUE,
        evaluated |-> 0]
  ELSE IF got.flag.null
  THEN [result |-> FALSE, rejected |-> FALSE, errorCounted |-> FALSE, caught |-> TRUE,
        evaluated |-> 0]
  ELSE IF ev.threw
  THEN [result |-> FALSE, rejected |-> FALSE, errorCounted |-> TRUE, caught |-> TRUE,
        evaluated |-> 0]
  ELSE [result |-> ev.value, rejected |-> FALSE, errorCounted |-> FALSE, caught |-> FALSE,
        evaluated |-> ev.evaluated]

NoCall == [made |-> FALSE, context |-> [userId |-> NoString, ipAddress |-> NoString],
           storeOk |-> TRUE, mirrored |-> FALSE,
           out |-> [result |-> FALSE, rejected |-> FALSE, errorCounted |-> FALSE,
                    caught |-> FALSE, evaluated |-> 0]]

\* the rollout checks an evaluation that got through n strategies has made
RolloutChecks(list, context, n) ==
  {[userId |-> context.userId, percentage |-> list[i].percentage,
    res |-> checkPercentageRollout(context.userId, list[i].percentage)] :
     i \in {j \in 1..n : list[j].type = "gradualRollout"}}

\* one call of isEnabled(name, context); a flag read from Redis is put in the mirror
IsEnabledCall(context, storeOk) ==
  LET out == isEnabled(feStored, feMirrored, storeOk, context) IN
  /\ feCall' = [made |-> TRUE, context |-> context, storeOk |-> storeOk,
                mirrored |-> feMirrored, out |-> out]
  /\ feMirrored' = (feMirrored \/ (storeOk /\ ~parseFlag(feStored).null))
  /\ feSeen' = feSeen \cup RolloutChecks(feStored.list, context, out.evaluated)
  /\ UNCHANGED feStored
  /\ UNCHANGED notEvalVars

\* the flag as it was written, mirrored (by loadFlags) or not yet
EvalInit ==
  /\ feStored \in StoredFlags
  /\ feMirrored \in {m \in BOOLEAN : m => ~parseFlag(feStored).null}
  /\ feCall = NoCall
  /\ feSeen = {}

EvalParked ==
  /\ feStored = [enabled |-> "undefined", form |-> "undefined", list |-> <<>>]
  /\ feMirrored = FALSE
  /\ feCall = NoCall
  /\ feSeen = {}

EvalNext ==
  \/ \E context \in Contexts, storeOk \in BOOLEAN : IsEnabledCall(context, storeOk)

(***************************************************************************)
(* FeatureFlagService: updateFlag, deleteFlag, loadFlags and the mirrors   *)
(***************************************************************************)

\* the instance serving the admin surface, and another one
Instances == {"A", "B"}
Ops == {"admin", "timer", "check"}

IdleOp == [pc |-> "idle", arg |-> "none", seen |-> "none", since |-> FALSE]

\* parseFlag of what hGetAll returns: the empty object of a missing key parses
\* to a flag that is not enabled
ParsedEnabled(data) == IF data = "on" THEN "on" ELSE "off"

\* An operation sends a command: Redis runs the commands of one client in the
\* order they were sent and the replies come back in that order.
Enqueue(i, o) == [fsQueue EXCEPT ![i] = Append(@, o)]
Requeue(i, o) == [fsQueue EXCEPT ![i] = Append(Tail(@), o)]
Dequeue(i) == [fsQueue EXCEPT ![i] = Tail(@)]
Replied(i, o) == fsQueue[i] # <<>> /\ Head(fsQueue[i]) = o

\* a write reached Redis: refreshes begun before it do not count as later ones
AfterWrite(ops) ==
  [i \in Instances |-> [o \in Ops |-> [ops[i][o] EXCEPT !.since = FALSE]]]

\* updateFlag(name, enabled, []) on the admin instance: hSet is sent
UpdateFlagStart(enabled) ==
  /\ fsOp["A"]["admin"].pc = "idle"
  /\ fsStore' = enabled
  /\ fsOp' = [AfterWrite(fsOp) EXCEPT !["A"]["admin"] =
                 [IdleOp EXCEPT !.pc = "hSet", !.arg = enabled]]
  /\ fsQueue' = Enqueue("A", "admin")
  /\ fsWritten' = "none"
  /\ fsFresh' = [i \in Instances |-> FALSE]
  /\ UNCHANGED fsMirror
  /\ UNCHANGED notSyncVars

\* hSet replied: expire(flagKey, cacheTTL) is sent
UpdateFlagExpire ==
  /\ Replied("A", "admin")
  /\ fsOp["A"]["admin"].pc = "hSet"
  /\ fsOp' = [fsOp EXCEPT !["A"]["admin"].pc = "expire"]
  /\ fsQueue' = Requeue("A", "admin")
  /\ UNCHANGED <<fsStore, fsMirror, fsWritten, fsFresh>>
  /\ UNCHANGED notSyncVars

\* loadFlags begins: client.keys('feature:*') is sent and sees the key or not
LoadKeys(i, o) ==
  [fsOp EXCEPT ![i][o].pc = "keys",
               ![i][o].seen = IF fsStore = "absent" THEN "none" ELSE "key"]

\* expire replied: updateFlag calls loadFlags
UpdateFlagLoad ==
  /\ Replied("A", "admin")
  /\ fsOp["A"]["admin"].pc = "expire"
  /\ fsOp' = LoadKeys("A", "admin")
  /\ fsQueue' = Requeue("A", "admin")
  /\ UNCHANGED <<fsStore, fsMirror, fsWritten, fsFresh>>
  /\ UNCHANGED notSyncVars

\* the timer of startAutoRefresh fires: loadFlags
TimerStart(i) ==
  /\ fsOp[i]["timer"].pc = "idle"
  /\ fsOp' = [LoadKeys(i, "timer") EXCEPT ![i]["timer"].since = TRUE]
  /\ fsQueue' = Enqueue(i, "timer")
  /\ UNCHANGED <<fsStore, fsMirror, fsWritten, fsFresh>>
  /\ UNCHANGED notSyncVars

\* loadFlags is over (its catch swallows a failure): updateFlag returns, the timer
\* callback ends
LoadEnds(i, o, ok) ==
  /\ fsOp' = [fsOp EXCEPT ![i][o] = IdleOp]
  /\ fsQueue' = Dequeue(i)
  /\ fsWritten' = IF o = "admin" THEN fsOp[i][o].arg ELSE fsWritten
  /\ fsFresh' = IF o = "timer" /\ ok /\ fsOp[i][o].since
                THEN [fsFresh EXCEPT ![i] = TRUE] ELSE fsFresh

\* keys replied.  With the list of keys loadFlags sends one hGetAll per key in a
\* MULTI, which reads the hash as it is by then; a failure goes to the catch.
LoadKeysReplied(i, o, redisOk) ==
  /\ o \in {"admin", "timer"}
  /\ Replied(i, o)
  /\ fsOp[i][o].pc = "keys"
  /\ IF redisOk
     THEN /\ fsOp' = [fsOp EXCEPT ![i][o].pc = "exec",
                                  ![i][o].seen = IF @ = "none" THEN "none" ELSE fsStore]
          /\ fsQueue' = Requeue(i, o)
          /\ UNCHANGED <<fsWritten, fsFresh>>
     ELSE LoadEnds(i, o, FALSE)
  /\ UNCHANGED <<fsStore, fsMirror>>
  /\ UNCHANGED notSyncVars

\* loadFlags puts every flag it has read into this.flags, and leaves every
\* other entry of this.flags as it is
MirrorAfterLoad(i, seen) ==
  IF seen = "none" THEN fsMirror ELSE [fsMirror EXCEPT ![i] = ParsedEnabled(seen)]

\* exec replied: the flags read are set in the mirror; a failure goes to the catch
LoadExecReplied(i, o, redisOk) ==
  /\ o \in {"admin", "timer"}
  /\ Replied(i, o)
  /\ fsOp[i][o].pc = "exec"
  /\ fsMirror' = IF redisOk THEN MirrorAfterLoad(i, fsOp[i][o].seen) ELSE fsMirror
  /\ LoadEnds(i, o, redisOk)
  /\ UNCHANGED fsStore
  /\ UNCHANGED notSyncVars

\* deleteFlag(name) on the admin instance: del is sent
DeleteFlagStart ==
  /\ fsOp["A"]["admin"].pc = "idle"
  /\ fsStore' = "absent"
  /\ fsOp' = [AfterWrite(fsOp) EXCEPT !["A"]["admin"] =
                 [IdleOp EXCEPT !.pc = "del", !.arg = "absent"]]
  /\ fsQueue' = Enqueue("A", "admin")
  /\ fsWritten' = "none"
  /\ fsFresh' = [i \in Instances |-> FALSE]
  /\ UNCHANGED fsMirror
  /\ UNCHANGED notSyncVars

\* del replied: this.flags.delete(flagName), and deleteFlag returns
DeleteFlagReplied ==
  /\ Replied("A", "admin")
  /\ fsOp["A"]["admin"].pc = "del"
  /\ fsMirror' = [fsMirror EXCEPT !["A"] = "absent"]
  /\ fsOp' = [fsOp EXCEPT !["A"]["admin"] = IdleOp]
  /\ fsQueue' = Dequeue("A")
  /\ fsWritten' = "absent"
  /\ UNCHANGED <<fsStore, fsFresh>>
  /\ UNCHANGED notSyncVars

\* isEnabled(name) finds nothing in the mirror: getFlag sends hGetAll
GetFlagStart(i) ==
  /\ fsOp[i]["check"].pc = "idle"
  /\ fsMirror[i] = "absent"
  /\ fsOp' = [fsOp EXCEPT ![i]["check"] = [IdleOp EXCEPT !.pc = "hGetAll", !.seen = fsStore]]
  /\ fsQueue' = Enqueue(i, "check")
  /\ UNCHANGED <<fsStore, fsMirror, fsWritten, fsFresh>>
  /\ UNCHANGED notSyncVars

\* hGetAll replied: the parsed flag is put in the mirror; a failure is thrown on
GetFlagReplied(i, redisOk) ==
  /\ Replied(i, "check")
  /\ fsOp[i]["check"].pc = "hGetAll"
  /\ fsMirror' = IF redisOk THEN [fsMirror EXCEPT ![i] = ParsedEnabled(fsOp[i]["check"].seen)]
                 ELSE fsMirror
  /\ fsOp' = [fsOp EXCEPT ![i]["check"] = IdleOp]
  /\ fsQueue' = Dequeue(i)
  /\ UNCHANGED <<fsStore, fsWritten, fsFresh>>
  /\ UNCHANGED notSyncVars

\* the cacheTTL seconds of expire(flagKey, cacheTTL) are over: the hash is gone.
\* They are far longer than an updateFlag takes.
FlagKeyExpires ==
  /\ fsStore # "absent"
  /\ fsOp["A"]["admin"].pc = "idle"
  /\ fsStore' = "absent"
  /\ UNCHANGED <<fsMirror, fsOp, fsQueue, fsWritten, fsFresh>>
  /\ UNCHANGED notSyncVars

\* what isEnabled(name, {}) returns on an instance now (the flags here have no
\* strategies): the mirrored flag, else the hash in Redis
EnabledOn(i) == IF fsMirror[i] # "absent" THEN fsMirror[i] = "on" ELSE fsStore = "on"

SyncInit ==
  /\ fsStore = "absent"
  /\ fsMirror = [i \in Instances |-> "absent"]
  /\ fsOp = [i \in Instances |-> [o \in Ops |-> IdleOp]]
  /\ fsQueue = [i \in Instances |-> <<>>]
  /\ fsWritten = "none"
  /\ fsFresh = [i \in Instances |-> FALSE]

SyncNext ==
  \/ \E enabled \in {"on", "off"} : UpdateFlagStart(enabled)
  \/ UpdateFlagExpire
  \/ UpdateFlagLoad
  \/ \E i \in Instances : TimerStart(i)
  \/ \E i \in Instances, o \in Ops, redisOk \in BOOLEAN : LoadKeysReplied(i, o, redisOk)
  \/ \E i \in Instances, o \in Ops, redisOk \in BOOLEAN : LoadExecReplied(i, o, redisOk)
  \/ DeleteFlagStart
  \/ DeleteFlagReplied
  \/ \E i \in Instances : GetFlagStart(i)
  \/ \E i \in Instances, redisOk \in BOOLEAN : GetFlagReplied(i, redisOk)
  \/ FlagKeyExpires

(***************************************************************************)
(* CacheService: get, set, delete                                          *)
(***************************************************************************)

CONFIG_TTL == 3600
MaxCacheTime == 3      \* the clock stops here
CacheKeys == {"k1", "k2"}

\* JavaScript values, tagged with their type
JsNull == [t |-> "null", v |-> "null"]
JsUndefined == [t |-> "undefined", v |-> "undefined"]
JsBool(b) == [t |-> "boolean", v |-> IF b THEN "true" ELSE "false"]
JsValues == {[t |-> "string", v |-> ""], [t |-> "string", v |-> "hi"],
             JsBool(FALSE), JsUndefined, [t |-> "circular", v |-> "object"]}

\* the ttl argument: left out, or a number of seconds
TtlArgs == {<<>>, <<0>>, <<2>>}

\* A string held by Redis: text between double quotes, or bare text.  What
\* another writer may have put under a key: the empty string, text that is no JSON
RedisText(quoted, text) == [quoted |-> quoted, text |-> text]
ForeignTexts == {RedisText(FALSE, ""), RedisText(FALSE, "oops")}
NoCacheKey == [data |-> JsNull, exp |-> 0]

\* JSON.stringify(value): [threw, undefined, text]
CsStringify(value) ==
  [threw |-> value.t = "circular",
   undefined |-> value.t = "undefined",
   text |-> RedisText(value.t = "string", value.v)]

\* JSON.parse(data): [threw, value]
CsParse(data) ==
  IF data.quoted THEN [threw |-> FALSE, value |-> [t |-> "string", v |-> data.text]]
  ELSE IF data.text = "null" THEN [threw |-> FALSE, value |-> JsNull]
  ELSE IF data.text \in {"true", "false"}
    THEN [threw |-> FALSE, value |-> [t |-> "boolean", v |-> data.text]]
  ELSE IF data.text = "0" THEN [threw |-> FALSE, value |-> [t |-> "number", v |-> "0"]]
  ELSE [threw |-> TRUE, value |-> JsUndefined]

\* `data ? ... : null` on what client.get returned: null and '' are falsy
CsTruthy(data) == data # JsNull /\ data # RedisText(FALSE, "")

\* client.get(key): the string under the key, null when there is none or it expired
ClientGet(key) == IF csNow < csStore[key].exp THEN csStore[key].data ELSE JsNull

\* get(key): [threw, value]
CsGet(key, clientOk) ==
  IF ~clientOk THEN [threw |-> FALSE, value |-> JsNull]
  ELSE IF ~CsTruthy(ClientGet(key)) THEN [threw |-> FALSE, value |-> JsNull]
  ELSE IF CsParse(ClientGet(key)).threw THEN [threw |-> FALSE, value |-> JsNull]
  ELSE [threw |-> FALSE, value |-> CsParse(ClientGet(key)).value]

\* EX: ttl ?? this.config.ttl
EX_AlwaysConfig(ttl) == CONFIG_TTL
EX(ttl) == IF ttl = <<>> THEN CONFIG_TTL ELSE ttl[1]

\* client.set(key, serialized, {EX}) is refused for a value that is no string and
\* for an expire time that is not positive
ClientSetOk(serialized, ex, clientOk) ==
  clientOk /\ ~serialized.undefined /\ ex > 0

\* set(key, value, ttl): [threw, value, stored]
CsSet_StringifyOutsideTry(value, ttl, clientOk) ==
  IF CsStringify(value).threw THEN [threw |-> TRUE, value |-> FALSE, stored |-> FALSE]
  ELSE [threw |-> FALSE, value |-> ClientSetOk(CsStringify(value), EX(ttl), clientOk),
        stored |-> ClientSetOk(CsStringify(value), EX(ttl), clientOk)]
CsSet(value, ttl, clientOk) ==
  IF CsStringify(value).threw THEN [threw |-> FALSE, value |-> FALSE, stored |-> FALSE]
  ELSE [threw |-> FALSE, value |-> ClientSetOk(CsStringify(value), EX(ttl), clientOk),
        stored |-> ClientSetOk(CsStringify(value), EX(ttl), clientOk)]

\* delete(key): [threw, value, deleted]; del returns the number of keys removed
CsDelete(key, clientOk) ==
  [threw |-> FALSE,
   value |-> clientOk /\ ClientGet(key) # JsNull,
   deleted |-> clientOk]

\* what went wrong under a call, as the environment decided it
Fault(clientOk, serializes, parses) ==
  IF ~clientOk THEN "client" ELSE IF ~serializes THEN "serialize"
  ELSE IF ~parses THEN "parse" ELSE "none"

NoCacheCall == [op |-> "none", key |-> "k1", fault |-> "none", threw |-> FALSE,
                value |-> JsUndefined]
NoSet == [ok |-> FALSE, value |-> JsUndefined, at |-> 0, ttl |-> 0]

CacheGetCall(key, clientOk) ==
  /\ csCall' = [op |-> "get", key |-> key,
                fault |-> Fault(clientOk, TRUE,
                                ~CsTruthy(ClientGet(key)) \/ ClientGet(key).quoted
                                  \/ ClientGet(key).text \in {"null", "true", "false", "0"}),
                threw |-> CsGet(key, clientOk).threw,
                value |-> CsGet(key, clientOk).value]
  /\ UNCHANGED <<csStore, csNow, csSet>>
  /\ UNCHANGED notCacheVars

CacheSetCall(key, value, ttl, clientOk) ==
  /\ csCall' = [op |-> "set", key |-> key,
                fault |-> Fault(clientOk, value.t # "circular", TRUE),
                threw |-> CsSet(value, ttl, clientOk).threw,
                value |-> JsBool(CsSet(value, ttl, clientOk).value)]
  /\ csStore' = IF CsSet(value, ttl, clientOk).stored
                THEN [csStore EXCEPT ![key] = [data |-> CsStringify(value).text,
                                               exp |-> csNow + EX(ttl)]]
                ELSE csStore
  /\ csSet' = IF CsSet(value, ttl, clientOk).value
              THEN [csSet EXCEPT ![key] = [ok |-> TRUE, value |-> value, at |-> csNow,
                                           ttl |-> IF ttl = <<>> THEN CONFIG_TTL ELSE ttl[1]]]
              ELSE csSet
  /\ UNCHANGED csNow
  /\ UNCHANGED notCacheVars

CacheDeleteCall(key, clientOk) ==
  /\ csCall' = [op |-> "delete", key |-> key, fault |-> Fault(clientOk, TRUE, TRUE),
                threw |-> CsDelete(key, clientOk).threw,
                value |-> JsBool(CsDelete(key, clientOk).value)]
  /\ csStore' = IF CsDelete(key, clientOk).deleted
                THEN [csStore EXCEPT ![key] = NoCacheKey] ELSE csStore
  /\ csSet' = IF clientOk THEN [csSet EXCEPT ![key] = NoSet] ELSE csSet
  /\ UNCHANGED csNow
  /\ UNCHANGED notCacheVars

\* another user of the same Redis writes the key
ForeignWrite(key, text) ==
  /\ csStore' = [csStore EXCEPT ![key] = [data |-> text, exp |-> csNow + CONFIG_TTL]]
  /\ csSet' = [csSet EXCEPT ![key] = NoSet]
  /\ csCall' = NoCacheCall
  /\ UNCHANGED csNow
  /\ UNCHANGED notCacheVars

CacheTick ==
  /\ csNow < MaxCacheTime
  /\ csNow' = csNow + 1
  /\ csCall' = NoCacheCall
  /\ UNCHANGED <<csStore, csSet>>
  /\ UNCHANGED notCacheVars

CacheInit ==
  /\ csStore = [k \in CacheKeys |-> NoCacheKey]
  /\ csNow = 0
  /\ csCall = NoCacheCall
  /\ csSet = [k \in CacheKeys |-> NoSet]

CacheNext ==
  \/ \E key \in CacheKeys, clientOk \in BOOLEAN : CacheGetCall(key, clientOk)
  \/ \E key \in CacheKeys, value \in JsValues, ttl \in TtlArgs, clientOk \in BOOLEAN :
       CacheSetCall(key, value, ttl, clientOk)
  \/ \E key \in CacheKeys, clientOk \in BOOLEAN : CacheDeleteCall(key, clientOk)
  \/ \E key \in CacheKeys, text \in ForeignTexts : ForeignWrite(key, text)
  \/ CacheTick

(***************************************************************************)
(* AuthService with any token string: verifyToken, logout, authenticate,   *)
(* requireRole                                                             *)
(***************************************************************************)

MaxAuthTime == 2        \* the clock stops here

\* A token string is what it decodes to.  generateToken signs iat and exp with
\* JWT_SECRET; anyone can write a well-formed token with another signature and the
\* claims they like, or without an exp claim; other strings are no JWT at all.
IssuedToken(iat) == [kind |-> "issued", iat |-> iat, exp |-> iat + TokenLifetime]
ForgedExp == 2 * (TokenLifetime + MaxAuthTime)
ForeignTokens == {[kind |-> "forged", iat |-> 0, exp |-> ForgedExp],
                  [kind |-> "noexp", iat |-> 0, exp |-> NoTime],
                  [kind |-> "malformed", iat |-> NoTime, exp |-> NoTime]}
TokenStrings == ForeignTokens \cup {IssuedToken(iat) : iat \in 0..MaxAuthTime}

\* the tokens a caller can present now
Presentable == ForeignTokens \cup auIssued

\* jwt.verify(token, JWT_SECRET, {algorithms: ['HS512']}) returns the payload
JwtVerifies(token) == token.kind = "issued" /\ auNow < token.exp

\* redisClient.get(`blacklist:${token}`) is truthy
AuBlacklisted(token) == auBlacklist[token] # NoTime /\ auNow < auBlacklist[token]

\* verifyToken(token): [result, cacheReads]
verifyToken_BlacklistFirst(token, redisOk) ==
  [result |-> IF redisOk /\ ~AuBlacklisted(token) /\ JwtVerifies(token)
              THEN "payload" ELSE "invalid",
   cacheReads |-> 1]

\* (mutant) a failed blacklist lookup is taken for "not blacklisted"
verifyToken_FailsOpen(token, redisOk) ==
  IF ~JwtVerifies(token) THEN [result |-> "invalid", cacheReads |-> 0]
  ELSE IF redisOk /\ AuBlacklisted(token) THEN [result |-> "invalid", cacheReads |-> 1]
  ELSE [result |-> "payload", cacheReads |-> 1]

verifyToken(token, redisOk) ==
  IF ~JwtVerifies(token) THEN [result |-> "invalid", cacheReads |-> 0]
  ELSE IF ~redisOk THEN [result |-> "invalid", cacheReads |-> 1]
  ELSE IF AuBlacklisted(token) THEN [result |-> "invalid", cacheReads |-> 1]
  ELSE [result |-> "payload", cacheReads |-> 1]

\* logout: jwt.decode(token) checks no signature and returns null for a string
\* that is no JWT, on which decoded.exp throws
DecodeThrows(token) == token.kind = "malformed"

\* decoded.exp - Math.floor(Date.now() / 1000); a missing exp gives NaN, which
\* Redis refuses like a non-positive number: 0 stands for every refused value
LogoutExpiry(token) ==
  IF token.exp = NoTime \/ token.exp - auNow <= 0 THEN 0 ELSE token.exp - auNow

\* requireRole(...roles): res.status(403) or next()
requireRole_Denies(roles, role) == IF role \in roles THEN "403" ELSE "next"
requireRole(roles, role) == IF role \in roles THEN "next" ELSE "403"

\* authenticate: the Bearer header, verifyToken, the users row of payload.sub;
\* row is the role of that row, "none" when there is no row
authenticate(bearerOk, token, redisOk, row) ==
  IF ~bearerOk THEN "401"
  ELSE IF verifyToken(token, redisOk).result # "payload" THEN "401"
  ELSE IF row = "none" THEN "401"
  ELSE "next"

\* authenticateSocket: verifyToken, the users row of payload.sub; every failure
\* is handed to next as an error
authenticateSocket(token, redisOk, row) ==
  IF verifyToken(token, redisOk).result # "payload" THEN "error"
  ELSE IF row = "none" THEN "error"
  ELSE "next"

NoAuthCall == [op |-> "none", token |-> IssuedToken(0), result |-> "none",
               cacheReads |-> 0, ttl |-> 0, valid |-> FALSE, role |-> "none",
               roles |-> {}, listed |-> FALSE, redisOk |-> TRUE]

\* AuthService.generateToken(user)
AuGenerateToken ==
  /\ IssuedToken(auNow) \notin auIssued
  /\ auIssued' = auIssued \cup {IssuedToken(auNow)}
  /\ auCall' = NoAuthCall
  /\ UNCHANGED <<auNow, auBlacklist>>
  /\ UNCHANGED notAuthVars

\* AuthService.verifyToken(token); valid remembers what jwt.verify alone says,
\* listed whether the token had a live blacklist entry, redisOk whether Redis
\* answered
AuVerifyToken(token, redisOk) ==
  /\ token \in Presentable
  /\ auCall' = [NoAuthCall EXCEPT !.op = "verifyToken", !.token = token,
                                  !.listed = AuBlacklisted(token), !.redisOk = redisOk,
                                  !.result = verifyToken(token, redisOk).result,
                                  !.cacheReads = verifyToken(token, redisOk).cacheReads,
                                  !.valid = (token.kind = "issued" /\ auNow < token.exp)]
  /\ UNCHANGED <<auNow, auIssued, auBlacklist>>
  /\ UNCHANGED notAuthVars

\* AuthService.logout(token): SET blacklist:<token> '1' EX expiry
AuLogout(token, redisOk) ==
  /\ token \in Presentable
  /\ IF DecodeThrows(token) \/ LogoutExpiry(token) = 0 \/ ~redisOk
     THEN /\ auCall' = [NoAuthCall EXCEPT !.op = "logout", !.token = token,
                                          !.result = "threw"]
          /\ UNCHANGED auBlacklist
     ELSE /\ auCall' = [NoAuthCall EXCEPT !.op = "logout", !.token = token,
                                          !.result = "returned",
                                          !.ttl = LogoutExpiry(token)]
          /\ auBlacklist' = [auBlacklist EXCEPT ![token] = auNow + LogoutExpiry(token)]
  /\ UNCHANGED <<auNow, auIssued>>
  /\ UNCHANGED notAuthVars

\* a request to a route behind authenticate and requireRole(...roles)
AuRequest(bearerOk, token, redisOk, row, roles) ==
  /\ token \in Presentable
  /\ auCall' = [NoAuthCall EXCEPT
       !.op = "request", !.token = token, !.role = row, !.roles = roles,
       !.listed = AuBlacklisted(token), !.redisOk = redisOk,
       !.valid = authenticate(bearerOk, token, redisOk, row) = "next",
       !.result = IF authenticate(bearerOk, token, redisOk, row) = "next"
                  THEN requireRole(roles, row)
                  ELSE authenticate(bearerOk, token, redisOk, row)]
  /\ UNCHANGED <<auNow, auIssued, auBlacklist>>
  /\ UNCHANGED notAuthVars

\* a socket.io handshake through authenticateSocket
AuSocket(token, redisOk, row) ==
  /\ token \in Presentable
  /\ auCall' = [NoAuthCall EXCEPT
       !.op = "socket", !.token = token, !.role = row,
       !.listed = AuBlacklisted(token), !.redisOk = redisOk,
       !.valid = (token.kind = "issued" /\ auNow < token.exp),
       !.result = authenticateSocket(token, redisOk, row)]
  /\ UNCHANGED <<auNow, auIssued, auBlacklist>>
  /\ UNCHANGED notAuthVars

AuTick ==
  /\ auNow < MaxAuthTime
  /\ auNow' = auNow + 1
  /\ auCall' = NoAuthCall
  /\ UNCHANGED <<auIssued, auBlacklist>>
  /\ UNCHANGED notAuthVars

AuthInit ==
  /\ auNow = 0
  /\ auIssued = {}
  /\ auBlacklist = [token \in TokenStrings |-> NoTime]
  /\ auCall = NoAuthCall

AuthNext ==
  \/ AuGenerateToken
  \/ \E token \in TokenStrings, redisOk \in BOOLEAN : AuVerifyToken(token, redisOk)
  \/ \E token \in TokenStrings, redisOk \in BOOLEAN : AuLogout(token, redisOk)
  \/ \E bearerOk \in BOOLEAN, token \in TokenStrings, redisOk \in BOOLEAN,
        row \in {"none", "user", "admin"}, roles \in {{"admin"}, {"admin", "support"}} :
       AuRequest(bearerOk, token, redisOk, row, roles)
  \/ \E token \in TokenStrings, redisOk \in BOOLEAN, row \in {"none", "user", "admin"} :
       AuSocket(token, redisOk, row)
  \/ AuTick

(***************************************************************************)
(* ChatController: setupRedisPubSub and sendSystemMessage                  *)
(***************************************************************************)

MaxEvents == 2          \* system events sent in one run
Gateways == {"A", "B"}
EventIds == 1..MaxEvents

Running(i) == psPc[i] # "down"
PublisherReady(i) == psPc[i] \in {"connectingSub", "subscribing", "subscribed"}
SentSoFar == Cardinality({e.id : e \in psPublished})
             + Cardinality(UNION {psQueue[i] : i \in Gateways})

\* PUBLISH chat-events: Redis hands the message to the clients subscribed to the
\* channel at that moment and keeps nothing for the others
Deliver(ids) ==
  [i \in Gateways |-> IF psPc[i] = "subscribed" THEN psInbox[i] \cup ids ELSE psInbox[i]]
Reached(ids) ==
  psPublished \cup {[id |-> id, running |-> {i \in Gateways : Running(i)}] : id \in ids}

\* the constructor calls setupRedisPubSub() without awaiting it: the publisher
\* starts to connect, and the gateway goes on to accept connections
GatewayStart(i) ==
  /\ psPc[i] = "down"
  /\ i = "B" => Running("A")    \* A names the first one to start
  /\ psPc' = [psPc EXCEPT ![i] = "connectingPub"]
  /\ UNCHANGED <<psQueue, psInbox, psEmitted, psPublished>>
  /\ UNCHANGED notPubsubVars

\* await this.redisPublisher.connect() resolves: the commands the client held
\* are sent, and the subscriber starts to connect
PublisherConnected(i) ==
  /\ psPc[i] = "connectingPub"
  /\ psPc' = [psPc EXCEPT ![i] = "connectingSub"]
  /\ psInbox' = Deliver(psQueue[i])
  /\ psPublished' = Reached(psQueue[i])
  /\ psQueue' = [psQueue EXCEPT ![i] = {}]
  /\ UNCHANGED psEmitted
  /\ UNCHANGED notPubsubVars

\* await this.redisSubscriber.connect() resolves: subscribe('chat-events', ...)
\* is sent
SubscriberConnected(i) ==
  /\ psPc[i] = "connectingSub"
  /\ psPc' = [psPc EXCEPT ![i] = "subscribing"]
  /\ UNCHANGED <<psQueue, psInbox, psEmitted, psPublished>>
  /\ UNCHANGED notPubsubVars

\* Redis has taken the SUBSCRIBE
Subscribed(i) ==
  /\ psPc[i] = "subscribing"
  /\ psPc' = [psPc EXCEPT ![i] = "subscribed"]
  /\ UNCHANGED <<psQueue, psInbox, psEmitted, psPublished>>
  /\ UNCHANGED notPubsubVars

\* sendSystemMessage on a running instance (a join or a leave of one of its
\* connections): redisPublisher.publish('chat-events', ...), held by the client
\* while it is connecting
PublishSystemMessage(i) ==
  LET id == SentSoFar + 1 IN
  /\ Running(i)
  /\ SentSoFar < MaxEvents
  /\ IF PublisherReady(i)
     THEN /\ psInbox' = Deliver({id})
          /\ psPublished' = Reached({id})
          /\ UNCHANGED psQueue
     ELSE /\ psQueue' = [psQueue EXCEPT ![i] = @ \cup {id}]
          /\ UNCHANGED <<psInbox, psPublished>>
  /\ UNCHANGED <<psPc, psEmitted>>
  /\ UNCHANGED notPubsubVars

\* the subscriber's listener: this.server.emit('system-message', JSON.parse(message))
Reemit(i) ==
  /\ psInbox[i] # {}
  /\ LET id == CHOOSE id \in psInbox[i] : \A other \in psInbox[i] : id <= other IN
     /\ psInbox' = [psInbox EXCEPT ![i] = @ \ {id}]
     /\ psEmitted' = [psEmitted EXCEPT ![i] = @ \cup {id}]
  /\ UNCHANGED <<psPc, psQueue, psPublished>>
  /\ UNCHANGED notPubsubVars

PubsubInit ==
  /\ psPc = [i \in Gateways |-> "down"]
  /\ psQueue = [i \in Gateways |-> {}]
  /\ psInbox = [i \in Gateways |-> {}]
  /\ psEmitted = [i \in Gateways |-> {}]
  /\ psPublished = {}

PubsubNext ==
  \/ \E i \in Gateways : GatewayStart(i)
  \/ \E i \in Gateways : PublisherConnected(i)
  \/ \E i \in Gateways : SubscriberConnected(i)
  \/ \E i \in Gateways : Subscribed(i)
  \/ \E i \in Gateways : PublishSystemMessage(i)
  \/ \E i \in Gateways : Reemit(i)

(***************************************************************************)
(* FeatureFlagService: a definition through updateFlag, Redis and parseFlag *)
(***************************************************************************)

\* the strategies a caller of updateFlag builds: those of FlagStrategies, and
\* custom strategies that carry their predicate
WrittenStrategies ==
  FlagStrategies \cup {FeatureStrategy("custom", {}, 0, {}) @@ [rule |-> r] : r \in Rules}

WrittenLists == UNION {[1..n -> WrittenStrategies] : n \in 0..MaxStrategies}

\* JSON.stringify of one strategy: a property holding a function is left out
StringifyStrategy(strategy) == [f \in DOMAIN strategy \ {"rule"} |-> strategy[f]]

\* the fields hSet writes: enabled.toString() and JSON.stringify(strategies)
HashWritten(enabled, strategies) ==
  [enabled |-> IF enabled THEN "true" ELSE "false", form |-> "json",
   list |-> [i \in 1..Len(strategies) |-> StringifyStrategy(strategies[i])]]

NoFlag == [null |-> TRUE, enabled |-> FALSE, isList |-> FALSE, strategies |-> <<>>]

\* updateFlag up to the reply of hSet
RtUpdateFlag(enabled, strategies) ==
  /\ rtPc = "idle"
  /\ rtPc' = "written"
  /\ rtWritten' = [null |-> FALSE, enabled |-> enabled, isList |-> TRUE,
                   strategies |-> strategies]
  /\ rtStored' = HashWritten(enabled, strategies)
  /\ UNCHANGED rtMirror
  /\ UNCHANGED notRoundVars

\* the loadFlags of updateFlag: the hash is parsed into the mirror, or the read
\* fails and loadFlags logs it
RtLoadFlags(redisOk) ==
  /\ rtPc = "written"
  /\ rtPc' = IF redisOk THEN "loaded" ELSE "stale"
  /\ rtMirror' = IF redisOk /\ ~parseFlag(rtStored).null THEN parseFlag(rtStored)
                 ELSE rtMirror
  /\ UNCHANGED <<rtWritten, rtStored>>
  /\ UNCHANGED notRoundVars

RoundInit ==
  /\ rtPc = "idle"
  /\ rtWritten = NoFlag
  /\ rtStored = [enabled |-> "undefined", form |-> "undefined", list |-> <<>>]
  /\ rtMirror = NoFlag

RoundNext ==
  \/ \E enabled \in BOOLEAN, strategies \in WrittenLists : RtUpdateFlag(enabled, strategies)
  \/ \E redisOk \in BOOLEAN : RtLoadFlags(redisOk)

(***************************************************************************)
(* FeatureFlagService: the gradual rollout over user ids and percentages   *)
(***************************************************************************)

\* Bound of the rollout model.
MaxIdLen == 7           \* longest user id built from IdChars

\* 'a' and 'z'; seven of them overflow the 32-bit hash
IdChars == {97, 122}

\* "GydZG_", whose hash is the least 32-bit integer
MinHashId == <<71, 121, 100, 90, 71, 95>>

RolloutIds ==
  UNION {[1..n -> IdChars] : n \in 0..MaxIdLen} \cup FlagUserIds \cup {MinHashId}

Percentages == {0, 1, 18, 50, 99, 100}

\* one call of checkPercentageRollout(userId, percentage) by evaluateFlag
RolloutCheck(percentage) ==
  /\ roSeen' = roSeen \cup
       {[percentage |-> percentage, bucket |-> Rem100(hashString(roUserId)),
         res |-> checkPercentageRollout(roUserId, percentage)]}
  /\ UNCHANGED roUserId
  /\ UNCHANGED notRolloutVars

RolloutInit ==
  /\ roUserId \in RolloutIds
  /\ roSeen = {}

RolloutParked ==
  /\ roUserId = NoString
  /\ roSeen = {}

RolloutNext ==
  \/ \E percentage \in Percentages : RolloutCheck(percentage)

(***************************************************************************)
(* Specifications                                                          *)
(***************************************************************************)

\* a subsystem that takes no step sits in one fixed initial state
LoginParked == LoginInitWith("active")

InitToken == TokenInit /\ LoginParked /\ ChatParked /\ SrvInit /\ EvalParked /\ SyncInit /\ CacheInit /\ AuthInit /\ PubsubInit /\ RoundInit /\ RolloutParked
InitLogin == LoginInit /\ TokenInit /\ ChatParked /\ SrvInit /\ EvalParked /\ SyncInit /\ CacheInit /\ AuthInit /\ PubsubInit /\ RoundInit /\ RolloutParked
InitConn == ChatIdle({1}) /\ TokenInit /\ LoginParked /\ SrvInit /\ EvalParked /\ SyncInit /\ CacheInit /\ AuthInit /\ PubsubInit /\ RoundInit /\ RolloutParked
InitChat == ChatActive({1, 2}) /\ TokenInit /\ LoginParked /\ SrvInit /\ EvalParked /\ SyncInit /\ CacheInit /\ AuthInit /\ PubsubInit /\ RoundInit /\ RolloutParked
InitEval == EvalInit /\ TokenInit /\ LoginParked /\ ChatParked /\ SrvInit /\ SyncInit /\ CacheInit /\ AuthInit /\ PubsubInit /\ RoundInit /\ RolloutParked
InitSync == SyncInit /\ TokenInit /\ LoginParked /\ ChatParked /\ SrvInit /\ EvalParked /\ CacheInit /\ AuthInit /\ PubsubInit /\ RoundInit /\ RolloutParked
InitCache == CacheInit /\ TokenInit /\ LoginParked /\ ChatParked /\ SrvInit /\ EvalParked /\ SyncInit /\ AuthInit /\ PubsubInit /\ RoundInit /\ RolloutParked
InitAuth == AuthInit /\ TokenInit /\ LoginParked /\ ChatParked /\ SrvInit /\ EvalParked /\ SyncInit /\ CacheInit /\ PubsubInit /\ RoundInit /\ RolloutParked
InitPubsub == PubsubInit /\ TokenInit /\ LoginParked /\ ChatParked /\ SrvInit /\ EvalParked /\ SyncInit /\ CacheInit /\ AuthInit /\ RoundInit /\ RolloutParked
InitServer == SrvInit /\ TokenInit /\ LoginParked /\ ChatParked /\ EvalParked /\ SyncInit /\ CacheInit /\ AuthInit /\ PubsubInit /\ RoundInit /\ RolloutParked
InitRound == RoundInit /\ TokenInit /\ LoginParked /\ ChatParked /\ SrvInit /\ EvalParked /\ SyncInit /\ CacheInit /\ AuthInit /\ PubsubInit /\ RolloutParked
InitRollout == RolloutInit /\ TokenInit /\ LoginParked /\ ChatParked /\ SrvInit /\ EvalParked /\ SyncInit /\ CacheInit /\ AuthInit /\ PubsubInit /\ RoundInit

SpecToken == InitToken /\ [][TokenNext]_vars
SpecLogin == InitLogin /\ [][LoginNext]_vars
SpecConn == InitConn /\ [][ConnNext]_vars
SpecChat == InitChat /\ [][ChatNext]_vars
SpecServer == InitServer /\ [][SrvNext]_vars
SpecEval == InitEval /\ [][EvalNext]_vars
SpecSync == InitSync /\ [][SyncNext]_vars
SpecCache == InitCache /\ [][CacheNext]_vars
SpecAuth == InitAuth /\ [][AuthNext]_vars
SpecPubsub == InitPubsub /\ [][PubsubNext]_vars
SpecRound == InitRound /\ [][RoundNext]_vars
SpecRollout == InitRollout /\ [][RolloutNext]_vars

(***************************************************************************)
(* Claims                                                                  *)
(***************************************************************************)

\* C1: after logout(token) has completed for a validly signed, unexpired token,
\* every verifyToken(token) call fails until the token expires, and the
\* blacklist entry is gone once the token has expired.
C1_RevokedUntilExpiry ==
  \A t \in Tokens :
    revoked[t] =>
      /\ VerifyTokenOutcome(t) = "invalid"
      /\ (NowSec >= TokenExp(t) => ~IsBlacklisted(t))

C8_AtMostFivePass ==
  \A e \in Emails : passedInWindow[e] <= MAX_LOGIN_ATTEMPTS

\* C8 witness: the key has let 5 calls through, one of them still in flight,
\* while a concurrent call is being rejected
C8_Witness ==
  \E p, q \in LoginProcs :
    /\ lp[p].email = lp[q].email
    /\ passedInWindow[lp[p].email] = MAX_LOGIN_ATTEMPTS
    /\ lp[p].pc = "credentials"
    /\ lp[q].pc = "block"

\* the messages table holds the row of message m written by the user / by the bot
HasRow(m, isBot) == \E r \in messages : r.msg = m /\ r.is_bot = isBot

\* C2: for two messages arriving one after the other on the same connection, the
\* pipeline of the second does not start before the pipeline of the first has
\* settled.
C2_SequentialPerConnection ==
  \A m1 \in Msgs, m2 \in Msgs :
    (m1 < m2 /\ pipe[m2].pc # "none" /\ pipe[m1].conn = pipe[m2].conn) => Settled(m1)

\* C3: once the pipeline of a message has settled, the store holds both its user
\* row and its bot row, or neither.
C3_BothRowsOrNeither ==
  \A m \in Msgs : Settled(m) => (HasRow(m, FALSE) <=> HasRow(m, TRUE))

\* C4: a message of length 0 or of more than 500 characters is failed by the
\* handler of server.ts without a cache probe, a flag evaluation or an AI call.
C4_ServerRejectsInvalid ==
  \A m \in MsgIds :
    (srvMsg[m].pc # "none" /\ ~validateMessage(srvMsg[m].text))
      => /\ srvMsg[m].pc = "failed"
         /\ ~srvMsg[m].probed /\ ~srvMsg[m].flagged /\ ~srvMsg[m].generated

\* C5: when the AI call of a message fails, an error event goes to the sending
\* connection only, no bot row is stored for the message and its pipeline writes
\* no memoization entry.
C5_GenerationFailure ==
  \A m \in Msgs :
    pipe[m].gen = "rejected"
      => /\ \E e \in emitted : e.kind = "error" /\ e.msg = m /\ e.to \subseteq {pipe[m].conn}
         /\ ~HasRow(m, TRUE)
         /\ m \notin cacheWrites
         /\ \A e \in emitted : (e.kind = "message" /\ e.msg = m) => ~e.is_bot

C5_Witness ==
  \E m \in Msgs :
    /\ pipe[m].gen = "rejected"
    /\ pipe[m].pc = "failed"
    /\ HasRow(m, FALSE)
    /\ [kind |-> "error", msg |-> m, is_bot |-> FALSE, to |-> {pipe[m].conn}] \in emitted
    /\ \E k \in Msgs : k # m /\ pipe[k].content = pipe[m].content /\ k \in cacheWrites

\* C6: when the probe finds a live entry for the content of a message, neither
\* the flag engine nor the AI service is called for it, and the reply is the
\* cached text, counted as a hit.
C6_HitSkipsFlagAndAI ==
  \A m \in Msgs :
    pipe[m].held # "null"
      => /\ pipe[m].hit
         /\ pipe[m].resp = pipe[m].held
         /\ m \notin flagCalls
         /\ m \notin aiCalls

\* C9: after verifyToken has failed in the handshake of a connection, the
\* connection is closed, no Session row exists for it and no join event was
\* published for it.
C9_NoPartialStateOnVerifyFailure ==
  \A c \in Conns :
    conn[c].verify = "failed"
      => /\ ~conn[c].open
         /\ conn[c].hs = "rejected"
         /\ conn[c].sessionId = 0
         /\ \A i \in 1..Len(sessions) : sessions[i].conn # c
         /\ [type |-> "join", conn |-> c] \notin published

C9_Witness ==
  \E c \in Conns, d \in Conns :
    /\ conn[c].verify = "failed"
    /\ conn[c].hs = "rejected"
    /\ conn[d].hs = "active"
    /\ Len(sessions) = 1
    /\ [type |-> "join", conn |-> d] \in published

\* C10: once an Active connection has disconnected, its Session row has expired
\* (expires_at is the time of the disconnect) and the leave event was published.
C10_DisconnectExpiresSession ==
  \A c \in Conns :
    conn[c].hs = "disconnected"
      => /\ sessions[conn[c].sessionId].expiresIn = 0
         /\ [type |-> "leave", conn |-> c] \in published

\* C20: no login is rejected because the rate-limit counter cannot be read or
\* incremented (the limiter's Redis call fails).
C20_LoginFailsOpen ==
  \A p \in LoginProcs : lp[p].outcome # "LimiterError"

\* C11: isEnabled never rejects, and whenever an error was caught on the way
\* (failed store read, malformed or non-list strategies) it returns false and
\* the error is counted as an evaluation error.
C11_NeverThrowsCountsErrors ==
  feCall.made
    => /\ ~feCall.out.rejected
       /\ feCall.out.caught => (feCall.out.result = FALSE /\ feCall.out.errorCounted)

\* C12: for a flag whose enabled field is false, isEnabled returns false whatever
\* the context and the strategies.
C12_DisabledIsFalse ==
  (feCall.made /\ feStored.enabled = "false") => feCall.out.result = FALSE

C12_Witness ==
  /\ feCall.made
  /\ feStored.enabled = "false"
  /\ feStored.form = "json"
  /\ Len(feStored.list) > 0
  /\ StrategyMatches(feStored.list[1], feCall.context)
  /\ feCall.out.result = FALSE
  /\ ~feCall.out.caught

\* containment of an address in base/bits, for prefixes of whole octets
InCIDR(ip, cidr) ==
  /\ ip # NoString
  /\ \A i \in 1..(cidr.bits \div 8) : ip[i] = cidr.addr[i]

\* an ipRange strategy matches: the address equals an entry or lies in a CIDR entry
IpRangeMatches(ip, ranges) ==
  \E range \in ranges : IF range.slash THEN InCIDR(ip, range) ELSE ip = range.addr

\* a strategy matches a context
Matches(strategy, context) ==
  CASE strategy.type = "userIds" -> context.userId \in strategy.users
    [] strategy.type = "gradualRollout" ->
         /\ context.userId # NoString
         /\ Mod100(hashString(context.userId).hi, hashString(context.userId).lo)
              < strategy.percentage
    [] strategy.type = "ipRange" -> IpRangeMatches(context.ipAddress, strategy.ips)
    [] OTHER -> FALSE

\* C13: an enabled flag evaluates to true when its list is empty, and otherwise
\* exactly when some strategy of the list matches the context; strategies of an
\* unknown type do not match.
C13_AnyStrategyMatches ==
  (feCall.made /\ feStored.enabled = "true" /\ feStored.form = "json" /\ ~feCall.out.caught)
    => feCall.out.result =
         (\/ Len(feStored.list) = 0
          \/ \E i \in 1..Len(feStored.list) : Matches(feStored.list[i], feCall.context))

\* C14: every rollout check of a user id against a percentage gave
\* hash(userId) mod 100 < percentage, and two checks of the same user id and
\* percentage gave the same result.
C14_RolloutDeterministic ==
  /\ \A o \in feSeen :
       o.userId # NoString =>
         o.res = (Mod100(hashString(o.userId).hi, hashString(o.userId).lo) < o.percentage)
  /\ \A a \in feSeen, b \in feSeen :
       (a.userId = b.userId /\ a.percentage = b.percentage) => a.res = b.res

C14_Witness ==
  /\ feCall.made
  /\ feCall.mirrored
  /\ feCall.context.ipAddress # NoString
  /\ \E a \in feSeen, b \in feSeen :
       /\ a.userId = <<117, 115, 101, 114, 45, 52, 50>>
       /\ b.userId = a.userId
       /\ a.res /\ ~b.res
  /\ [userId |-> <<98, 111, 98>>, percentage |-> 17, res |-> FALSE] \in feSeen

\* C15: an ipRange strategy alone in the list of an enabled flag gives true
\* exactly when the context's address equals an entry or lies in a CIDR entry.
C15_IpRangeExactOrCIDR ==
  (/\ feCall.made /\ feStored.enabled = "true" /\ feStored.form = "json"
   /\ ~feCall.out.caught
   /\ Len(feStored.list) = 1 /\ feStored.list[1].type = "ipRange")
    => feCall.out.result = IpRangeMatches(feCall.context.ipAddress, feStored.list[1].ips)

\* C16: when the last updateFlag or deleteFlag has returned on the admin
\* instance and Redis still holds what it wrote, isEnabled on that instance
\* gives what was written: the written enabled value, or false once the flag
\* is deleted.
C16_WriteVisibleLocally ==
  (fsOp["A"]["admin"].pc = "idle" /\ fsWritten # "none" /\ fsStore = fsWritten)
    => EnabledOn("A") = (fsWritten = "on")

\* C17: once an instance has completed a successful timer refresh begun after
\* the last update or delete, and Redis still holds what was written,
\* isEnabled on that instance gives what was written.
C17_RefreshReflectsWrite ==
  \A i \in Instances :
    (fsFresh[i] /\ fsWritten # "none" /\ fsStore = fsWritten)
      => EnabledOn(i) = (fsWritten = "on")

\* C18: no get, set or delete call propagates a failure: when the client
\* operation, the serialization or the parsing fails, get returns null and set
\* and delete return false.
C18_FailuresBecomeDefaults ==
  /\ ~csCall.threw
  /\ (csCall.op = "get" /\ csCall.fault # "none") => csCall.value = JsNull
  /\ (csCall.op \in {"set", "delete"} /\ csCall.fault # "none") => csCall.value = JsBool(FALSE)

C18_Witness ==
  /\ csCall.op = "get" /\ csCall.fault = "parse" /\ csCall.value = JsNull
  /\ ~csCall.threw

C21_BlacklistTtlBounded ==
  (auCall.op = "logout" /\ auCall.result = "returned")
    => (auCall.ttl > 0 /\ auCall.ttl <= TokenLifetime)

\* C22: a verifyToken call on a token that jwt.verify refuses (wrong signature,
\* no JWT, expired) fails without reading the blacklist.
C22_NoCacheReadOnInvalid ==
  (auCall.op = "verifyToken" /\ ~auCall.valid)
    => (auCall.result = "invalid" /\ auCall.cacheReads = 0)

C22_Witness ==
  /\ auCall.op = "verifyToken" /\ ~auCall.valid /\ auCall.token.kind = "issued"
  /\ auCall.result = "invalid" /\ auCall.cacheReads = 0

\* C26: a request that authenticate let through passes requireRole(...roles)
\* exactly when the role of its user is one of roles, and gets 403 otherwise.
C26_RoleGate ==
  (auCall.op = "request" /\ auCall.valid)
    => /\ auCall.result = "next" <=> auCall.role \in auCall.roles
       /\ auCall.result = "403" <=> auCall.role \notin auCall.roles

C26_Witness ==
  /\ auCall.op = "request" /\ auCall.valid
  /\ auCall.role = "user" /\ auCall.roles = {"admin", "support"} /\ auCall.result = "403"

\* C23 as stated: a login call that returned a token has set the stored
\* login_attempts to 0 and last_login; a login call that failed, for whatever
\* reason, has raised the stored login_attempts of the user with that email by
\* exactly 1.
C23_AttemptsRecorded ==
  \A p \in LoginProcs :
    lp[p].pc = "done" =>
      IF lp[p].outcome = "token" THEN lp[p].reset
      ELSE UserExists(lp[p].email) => lp[p].delta = 1

\* C23 amended: a login call that returned a token has set the stored
\* login_attempts to 0 and last_login; a login call that failed while the users
\* store took the increment has raised the stored login_attempts of the user
\* with that email by exactly 1 and returned no token; when the store rejected
\* the increment the counter is as it was.
C23_AttemptsRecordedWhenStoreAnswers ==
  \A p \in LoginProcs :
    lp[p].pc = "done" =>
      IF lp[p].outcome = "token" THEN lp[p].reset /\ lp[p].delta = 0
      ELSE /\ ~lp[p].reset
           /\ lp[p].delta = IF UserExists(lp[p].email) /\ ~lp[p].dropped THEN 1 ELSE 0

C23_Witness ==
  \E p, q \in LoginProcs :
    /\ lp[p].pc = "done" /\ lp[p].outcome = "InvalidCredentials" /\ lp[p].delta = 1
    /\ lp[q].pc = "done" /\ lp[q].outcome = "token" /\ lp[q].reset

\* C24: a login call that fails ends with one of the three kinds RateLimited,
\* InvalidCredentials, AccountDisabled: RateLimited only when the limiter rejected
\* the call, the other two only after the limiter let it through.
C24_ThreeErrorKinds ==
  \A p \in LoginProcs :
    (lp[p].pc = "done" /\ lp[p].outcome # "token")
      => lp[p].outcome \in {"RateLimited", "InvalidCredentials", "AccountDisabled"}

\* C25: a login call the limiter let through and the store answered ends with
\* the same error, InvalidCredentials, for an email without a row and for a
\* password that does not match.
C25_SameErrorForEitherCredential ==
  \A p \in LoginProcs :
    ( /\ lp[p].pc = "done"
      /\ lp[p].outcome \notin {"RateLimited", "LimiterError", "StoreError"}
      /\ (~UserExists(lp[p].email) \/ ~lp[p].pwOk) )
    => lp[p].outcome = "InvalidCredentials"

C25_Witness ==
  \E p \in LoginProcs :
    /\ lp[p].pc = "done" /\ ~UserExists(lp[p].email) /\ lp[p].pwOk
    /\ lp[p].outcome = "InvalidCredentials"

\* C27: the connect and disconnect handling of a connection whose verifyToken
\* rejected raises no error that nothing handles.
C27_FailedHandshakeRaisesNothing ==
  \A c \in Conns : conn[c].verify = "failed" => ~conn[c].raised

\* C28: a disconnect leaves the pipelines of the connection's messages and the
\* calls they have issued as they are; whatever is emitted goes to connections
\* that are open only, so nothing is sent towards a closed one; no pipeline ends
\* with an error raised out of handleMessage; and a pipeline that completes has
\* stored both rows, whether or not its connection is still there.
C28_DisconnectMidPipeline ==
  [][ /\ (\E c \in Conns : conn[c].open /\ ~conn'[c].open)
         => <<pipe, messages, memo, flagCalls, aiCalls, cacheWrites>>'
              = <<pipe, messages, memo, flagCalls, aiCalls, cacheWrites>>
      /\ \A e \in emitted' \ emitted : e.to \subseteq {c \in Conns : conn[c].open}
      /\ \A m \in Msgs :
           /\ pipe'[m].pc # "crashed"
           /\ pipe'[m].pc = "done" => (HasRow(m, FALSE)' /\ HasRow(m, TRUE)')
    ]_vars

\* C28 witness: a message completed, with its bot row stored and emitted to the
\* other connection only, after its own connection was closed
C28_Witness ==
  \E m \in Msgs :
    /\ pipe[m].pc = "done" /\ ~pipe[m].hit
    /\ ~conn[pipe[m].conn].open
    /\ HasRow(m, TRUE)
    /\ m \in aiCalls
    /\ \E e \in emitted : e.kind = "message" /\ e.msg = m /\ e.is_bot
                          /\ pipe[m].conn \notin e.to
    /\ \E e \in emitted : e.kind = "message" /\ e.msg = m /\ ~e.is_bot
                          /\ pipe[m].conn \in e.to

\* C29: the memoization entry of a message is written no earlier than its bot
\* row is stored.
C29_CacheAfterBotRow ==
  \A m \in Msgs : m \in cacheWrites => HasRow(m, TRUE)

\* C30: an event that reached the channel while an instance was running has been
\* delivered to that instance (and is emitted to its clients, or about to be):
\* Redis delivers an event once, so an event that is in neither place never
\* reaches the clients of that instance.
C30_NoEventLost ==
  \A e \in psPublished : \A i \in e.running :
    e.id \in psInbox[i] \cup psEmitted[i]

\* C31: a definition that updateFlag wrote and loadFlags read back into the mirror
\* evaluates, for every context, as the definition that was written: enabled is
\* kept and every strategy, a custom one included, matches the same contexts.
C31_RoundTripEvaluatesSame ==
  rtPc = "loaded" =>
    \A context \in Contexts :
      evaluateFlag(rtMirror, context).value = evaluateFlag(rtWritten, context).value

\* C32: a message is processed only on an Active connection: every row of the
\* messages table carries the id of the Session row created for its connection
\* and the id of the user verified at the handshake, also when the message came
\* in while handleConnection was still waiting.
C32_RowsCarrySessionAndUser ==
  \A r \in messages :
    LET c == pipe[r.msg].conn IN
    /\ r.session_id \in 1..Len(sessions)
    /\ sessions[r.session_id].conn = c
    /\ r.user_id = UserOf(c)

\* C33: a stored user message and its bot reply are emitted to the connection
\* that sent the message and to no other connection.
C33_EmittedToSenderOnly ==
  \A e \in emitted : e.kind = "message" => e.to \subseteq {pipe[e.msg].conn}

\* C34: when the store fails on the insert of the user row or of the bot row of
\* a message, the message is failed: an error event goes to the sender (as long
\* as its socket is connected) and no message event is emitted for a row that
\* was not persisted.
C34_StoreFailureFailsMessage ==
  \A m \in Msgs :
    pipe[m].err = "store"
      => /\ pipe[m].pc = "failed"
         /\ \E e \in emitted :
              /\ e.kind = "error" /\ e.msg = m
              /\ e.to \subseteq {pipe[m].conn}
              /\ conn[pipe[m].conn].open => e.to = {pipe[m].conn}
         /\ \A e \in emitted : (e.kind = "message" /\ e.msg = m) => HasRow(m, e.is_bot)

C34_Witness ==
  \E m \in Msgs :
    /\ pipe[m].err = "store"
    /\ HasRow(m, FALSE) /\ ~HasRow(m, TRUE)
    /\ conn[pipe[m].conn].open
    /\ [kind |-> "error", msg |-> m, is_bot |-> FALSE, to |-> {pipe[m].conn}] \in emitted
    /\ \E e \in emitted : e.kind = "message" /\ e.msg = m /\ ~e.is_bot

\* C35: a leave event is published for a connection only if a join event was
\* published for that connection before, whatever became of its handshake.
C35_LeaveOnlyAfterJoin ==
  \A c \in Conns :
    [type |-> "leave", conn |-> c] \in published
      => [type |-> "join", conn |-> c] \in published

\* the reply of m came from generateExperimental: from its own AI call, or from
\* the memoization entry another message wrote after such a call
FromExperimental(m) ==
  \/ m \in aiCalls /\ pipe[m].gen = "resolved" /\ pipe[m].experimental
  \/ /\ pipe[m].hit
     /\ \E k \in cacheWrites \ {m} :
          /\ pipe[k].content = pipe[m].content
          /\ pipe[k].resp = pipe[m].resp
          /\ pipe[k].experimental

\* every evaluation of 'experimental-model' so far came out as the flag stands
FlagAsItStands ==
  \A k \in Msgs :
    (k \in aiCalls) => (pipe[k].experimental <=> UserOf(pipe[k].conn) \in ExperimentalUsers)

\* C36: a user the flag 'experimental-model' is off for never gets a bot reply
\* that generateExperimental produced, a reply served from the memoization cache
\* included.
C36_NoExperimentalReplyWhenOff ==
  FlagAsItStands =>
    \A e \in emitted :
      (e.kind = "message" /\ e.is_bot /\ UserOf(pipe[e.msg].conn) \notin ExperimentalUsers)
        => ~FromExperimental(e.msg)

\* C37: verifyToken returns no payload for a token with a live blacklist entry,
\* and none when the blacklist lookup fails; neither the authenticate middleware
\* nor authenticateSocket lets such a call through.
C37_RevocationFailsClosed ==
  (auCall.op \in {"verifyToken", "request", "socket"} /\ (auCall.listed \/ ~auCall.redisOk))
    => auCall.result = CASE auCall.op = "verifyToken" -> "invalid"
                         [] auCall.op = "request" -> "401"
                         [] auCall.op = "socket" -> "error"

C37_Witness ==
  /\ auCall.op = "verifyToken" /\ auCall.valid
  /\ auCall.listed /\ ~auCall.redisOk
  /\ auCall.result = "invalid" /\ auCall.cacheReads = 1

\* C38: for every user id the rollout bucket hashString(userId) % 100 lies in
\* 0..99, also when the 32-bit hash overflows or is the least 32-bit integer;
\* percentage 0 enables nobody, percentage 100 enables every non-empty user id,
\* and an absent or empty user id is never enabled.
C38_BucketInRange ==
  \A check \in roSeen :
    /\ roUserId # NoString => check.bucket \in 0..99
    /\ check.percentage = 0 => ~check.res
    /\ (check.percentage = 100 /\ roUserId # NoString) => check.res
    /\ roUserId = NoString => ~check.res

C38_Witness ==
  /\ roUserId = MinHashId
  /\ HashFrom(roUserId, 1, 0, 0) = [hi |-> 32768, lo |-> 0]
  /\ [percentage |-> 100, bucket |-> 48, res |-> TRUE] \in roSeen
  /\ [percentage |-> 0, bucket |-> 48, res |-> FALSE] \in roSeen

\* C39: the gradual rollout is monotonic in the percentage: a user id that
\* matches at a percentage matches at every greater one.
C39_RolloutMonotonic ==
  \A lower \in roSeen, higher \in roSeen :
    (lower.percentage <= higher.percentage /\ lower.res) => higher.res

C39_Witness ==
  /\ Len(roUserId) = MaxIdLen
  /\ \E out \in roSeen, lower \in roSeen, higher \in roSeen :
       /\ out.percentage < lower.percentage /\ lower.percentage < higher.percentage
       /\ 0 < out.percentage
       /\ ~out.res /\ lower.res /\ higher.res

\* C40: isEnabled changes no flag definition: after a call, for whatever name,
\* listFlags returns what it returned before the call (the mirror holds the
\* flag exactly if it held it before) and the store is as it was.
C40_IsEnabledReadOnly ==
  feCall.made => (feMirrored <=> feCall.mirrored)

====
